---------------------------- MODULE Spec2Model ----------------------------
(***************************************************************************)
(* Media server of markusevanger/feed (apps/media-server): the upload      *)
(* pipeline (type validation, duplicate index, disk guard, image and video *)
(* processing, index persistence) and the delete endpoint, as a state      *)
(* machine.  Node runs one handler continuation at a time, so every action *)
(* is the effect of one awaited operation followed by the synchronous code *)
(* up to the next await.                                                   *)
(***************************************************************************)
EXTENDS Integers, FiniteSets, Sequences, TLC

(***************************************************************************)
(* Bounds of the model.                                                    *)
(***************************************************************************)
\* number of HTTP requests (uploads or deletes) in one run of the process
NumReq == 2
\* number of times the process is started again
MaxRestarts == 1
\* size in bytes of every uploaded buffer
FileSize == 3

Req == 1..NumReq

(***************************************************************************)
(* Configuration (index.ts 27-54).                                         *)
(***************************************************************************)
\* parseInt(process.env.MIN_FREE_SPACE_MB || '500', 10): the default
DefaultMinFreeSpaceMB == 500

BytesPerMB == 1024 * 1024

ALLOWED_IMAGE_TYPES ==
    {"image/jpeg", "image/png", "image/webp", "image/gif", "image/avif",
     "image/heic", "image/heif"}

ALLOWED_VIDEO_TYPES ==
    {"video/mp4", "video/quicktime", "video/webm", "video/x-msvideo",
     "video/x-matroska"}

WEB_COMPATIBLE_VIDEO_CODECS == {"h264", "avc1", "avc"}
WEB_COMPATIBLE_AUDIO_CODECS == {"aac", "mp4a"}

(***************************************************************************)
(* Uploaded byte contents.  A content stands for one byte string; its      *)
(* SHA-256 digest identifies it.                                           *)
(*   png  a PNG image                                                      *)
(*   mp4  an MP4 file with H.264 video and AAC audio                       *)
(*   mkv  a Matroska file with VP9 video and Opus audio                    *)
(*   pdf  a PDF document                                                   *)
(*   unk  bytes in which file-type recognises no signature                 *)
(***************************************************************************)
Contents == {"png", "mp4", "mkv", "pdf", "unk"}

NoType == [mime |-> "", ext |-> ""]

\* file-type's fileTypeFromBuffer: the type read from the magic bytes, or
\* undefined (NoType)
fileTypeFromBuffer(buffer) ==
    CASE buffer = "png" -> [mime |-> "image/png", ext |-> "png"]
      [] buffer = "mp4" -> [mime |-> "video/mp4", ext |-> "mp4"]
      [] buffer = "mkv" -> [mime |-> "video/x-matroska", ext |-> "mkv"]
      [] buffer = "pdf" -> [mime |-> "application/pdf", ext |-> "pdf"]
      [] OTHER -> NoType

\* crypto's SHA-256 digest of the buffer (collision free on Contents)
calculateHash(buffer) == "sha256:" \o buffer

\* what ffprobe prints for a file holding the content: the first component
\* of format_name and the codec_name of the first video and audio stream
\* ("" where the stream or the name is missing)
ProbeOutput(content) ==
    CASE content = "mp4" -> [container |-> "mov", video |-> "H264", audio |-> "aac"]
      [] content = "mkv" -> [container |-> "matroska", video |-> "vp9", audio |-> "opus"]
      [] OTHER -> [container |-> "", video |-> "", audio |-> ""]

\* String.prototype.toLowerCase on the strings that occur
toLowerCase(s) ==
    CASE s = "H264" -> "h264"
      [] s = ".PHP" -> ".php"
      [] s = "AAC" -> "aac"
      [] OTHER -> s

\* path.extname on the client file names that occur
extname(originalname) ==
    CASE originalname = "shell.PHP" -> ".PHP"
      [] originalname = "clip.mp4" -> ".mp4"
      [] originalname = "photo.png" -> ".png"
      [] OTHER -> ""

(***************************************************************************)
(* req.file as multer hands it to the handler; NoFile is a request without *)
(* a file field.                                                           *)
(***************************************************************************)
NoFile == [buffer |-> "", originalname |-> "", mimetype |-> "", size |-> 0]

UploadInputs ==
    { [buffer |-> "png", originalname |-> "shell.PHP", mimetype |-> "text/plain", size |-> FileSize],
      [buffer |-> "mp4", originalname |-> "clip.mp4", mimetype |-> "video/mp4", size |-> FileSize],
      [buffer |-> "mkv", originalname |-> "clip.mp4", mimetype |-> "text/plain", size |-> FileSize],
      [buffer |-> "pdf", originalname |-> "photo.png", mimetype |-> "image/png", size |-> FileSize],
      [buffer |-> "unk", originalname |-> "shell.PHP", mimetype |-> "image/png", size |-> FileSize],
      [buffer |-> "unk", originalname |-> "shell.PHP", mimetype |-> "text/plain", size |-> FileSize],
      NoFile }

(***************************************************************************)
(* Files.  A file name is {id}{ext} or {id}_temp{ext}; a stored file is    *)
(* its directory, its name, the upload content it comes from and what the  *)
(* bytes are: "original" (the uploaded bytes, complete), "transcoded" (a   *)
(* finished ffmpeg output) or "partial" (an ffmpeg output being written).  *)
(***************************************************************************)
NoName == [id |-> 0, temp |-> FALSE, ext |-> ""]
NoUrl == [subdir |-> "", filename |-> NoName]
NoEntry == [hash |-> "", filename |-> NoName, type |-> "", url |-> NoUrl]
NoCodec == [container |-> "", videoCodec |-> "", audioCodec |-> "", isWebCompatible |-> FALSE]

VARIABLES
    MIN_FREE_SPACE_MB,  \* index.ts 32
    API_KEY,            \* index.ts 31: process.env.API_KEY ("" when it is not set)
    boots,              \* how many times the process has been started again
    synced,             \* whether .hash-index.json held the in-memory table at every shutdown
    call,               \* the function evaluated on its own and its arguments
    returned,           \* what that call returned
    uploadLimiter,      \* index.ts 195: the store of the limiter and what it let through
    request,            \* per request: route, authorization header and kind of body
    files,              \* the files under UPLOAD_DIR/images and UPLOAD_DIR/videos
    thumbs,             \* ids of the videos with a poster in UPLOAD_DIR/thumbnails
    hashIndex,          \* index.ts 72: the in-memory Map, as its set of entries
    indexFile,          \* .hash-index.json: whether it exists and its entries
    kind,               \* per request: "none", "upload" or "delete"
    pc,                 \* per request: the await the handler is suspended at
    file,               \* per request: req.file
    loc,                \* per request: the handler's local variables
    resp,               \* per request: the response sent
    hist,               \* per request: what the request did (observation only)
    lastOk              \* per content: url of the last success response, no delete since

vars == <<MIN_FREE_SPACE_MB, API_KEY, boots, synced, call, returned, uploadLimiter, request, files, thumbs, hashIndex, indexFile,
          kind, pc, file, loc, resp, hist, lastOk>>

\* what no request handler changes: the configuration read from the
\* environment, the number of the run, the function evaluated on its own
\* and the store of the upload limiter
config == <<MIN_FREE_SPACE_MB, API_KEY, boots, synced, call, returned, uploadLimiter>>

\* the configuration and what the request handlers read and change
server ==
    <<MIN_FREE_SPACE_MB, API_KEY, boots, synced, request, files, thumbs, hashIndex,
      indexFile, kind, pc, file, loc, resp, hist, lastOk>>

\* the addresses requests come from (req.ip)
Clients == {"10.0.0.1", "10.0.0.2"}

\* the limiter at the start of a window: no hit is counted for any key and
\* no upload was let through; status is what the limiter answered last
NoHits == [hits |-> [ip \in Clients |-> 0], passed |-> 0, status |-> 0]

\* no function is evaluated on its own
NoCall == [fn |-> ""]

\* what the arrival of a request fixes
arrival == <<kind, request>>

\* a request that has not arrived
NoRequest == [route |-> "", authorization |-> "", body |-> ""]

NoLoc ==
    [actualMimeType |-> "", ext |-> "", id |-> 0, existingFile |-> NoEntry,
     codecInfo |-> NoCodec, finalFilename |-> NoName, finalMimeType |-> "",
     transcoded |-> "absent", entries |-> {}]

NoResp ==
    [status |-> 0, duplicate |-> FALSE, url |-> NoUrl, mimeType |-> "",
     transcoded |-> "absent", copies |-> 0, error |-> ""]

NoParams == [type |-> "", filename |-> [dirs |-> "", base |-> NoName]]
NoPath == [dir |-> "", name |-> NoName]

NoHist ==
    [prior |-> NoUrl, checked |-> FALSE, statfsFailed |-> FALSE, free |-> 0,
     requiredX2 |-> 0, enough |-> FALSE, wrote |-> {}, indexed |-> FALSE,
     transcodeFailed |-> FALSE, unlinkFailed |-> {},
     params |-> NoParams, deleted |-> NoPath, overlap |-> FALSE]

\* the server has started on an empty upload directory
Started ==
    /\ boots = 0
    /\ synced = TRUE
    /\ call = NoCall
    /\ returned = NoCall
    /\ uploadLimiter = NoHits
    /\ files = {}
    /\ thumbs = {}
    /\ hashIndex = {}
    /\ indexFile = [exists |-> FALSE, entries |-> {}]
    /\ kind = [r \in Req |-> "none"]
    /\ request = [r \in Req |-> NoRequest]
    /\ pc = [r \in Req |-> "idle"]
    /\ file = [r \in Req |-> NoFile]
    /\ loc = [r \in Req |-> NoLoc]
    /\ resp = [r \in Req |-> NoResp]
    /\ hist = [r \in Req |-> NoHist]
    /\ lastOk = [c \in Contents |-> NoUrl]

Init ==
    /\ MIN_FREE_SPACE_MB = DefaultMinFreeSpaceMB
    /\ API_KEY = ""
    /\ Started


(***************************************************************************)
(* File system helpers.                                                    *)
(***************************************************************************)
Path(dir, name) == [dir |-> dir, name |-> name]

Exists(fs, dir, name) == \E x \in fs : x.dir = dir /\ x.name = name

\* fs.unlink of an existing file
Unlink(fs, dir, name) == {x \in fs : ~(x.dir = dir /\ x.name = name)}

\* fs.writeFile, or a subprocess writing its output: creates or replaces
WriteFile(fs, dir, name, content, bytes) ==
    Unlink(fs, dir, name) \cup
        {[dir |-> dir, name |-> name, content |-> content, bytes |-> bytes]}

\* number of files under images/ and videos/ that come from the content
Copies(fs, content) == Cardinality({x \in fs : x.content = content})


\* A :filename parameter is its directory part ("" or "../") and its last
\* component.
\* faulty variant of basename: the directory part is kept
basenameKeepsDirs(raw) == raw

\* path.basename of a request parameter: everything up to the last
\* separator is dropped
basename(raw) == [dirs |-> "", base |-> raw.base]

\* the name of the persisted index, .hash-index.json in UPLOAD_DIR
IndexFileName == [id |-> 0, temp |-> FALSE, ext |-> ".hash-index.json"]

\* the last component ".."
DotDot == [id |-> 0, temp |-> FALSE, ext |-> ".."]

\* path.join(UPLOAD_DIR, type, filename), normalised: the directory below
\* UPLOAD_DIR ("." is UPLOAD_DIR itself) and the file name in it; the name
\* is NoName when the path is the directory itself
join(type, filename) ==
    IF filename.base = DotDot
    THEN [dir |-> IF filename.dirs = "" THEN "." ELSE "..", name |-> NoName]
    ELSE [dir |-> IF filename.dirs = "" THEN type ELSE ".", name |-> filename.base]

\* readdir of a storage directory
readdir(fs, dir) == {x.name : x \in {y \in fs : y.dir = dir}}

\* GET /list: one record for each name readdir returns for images/ and for
\* videos/
list(fs) ==
    [images |-> {[filename |-> n, url |-> [subdir |-> "images", filename |-> n]] :
                    n \in readdir(fs, "images")},
     videos |-> {[filename |-> n, url |-> [subdir |-> "videos", filename |-> n]] :
                    n \in readdir(fs, "videos")}]

(***************************************************************************)
(* Duplicate index (index.ts 63-118).                                      *)
(***************************************************************************)
\* Map.prototype.get
findDuplicate(hash) ==
    IF \E e \in hashIndex : e.hash = hash
    THEN CHOOSE e \in hashIndex : e.hash = hash
    ELSE NoEntry

\* Map.prototype.set of addToHashIndex
IndexSet(index, entry) == {e \in index : e.hash # entry.hash} \cup {entry}

\* the loop of removeFromHashIndex: the entry whose filename is the string
\* given goes; file names are unique in the index
IndexRemove(index, filename) ==
    {e \in index : ~(filename.dirs = "" /\ e.filename = filename.base)}

(***************************************************************************)
(* Disk guard (index.ts 120-148).                                          *)
(***************************************************************************)
\* faulty variant of getDiskSpace: a failed statfs reports the disk as empty of
\* files instead of full
getDiskSpaceFailOpen(statfsOk, bavailBytes) ==
    IF statfsOk THEN bavailBytes ELSE 3 * BytesPerMB

\* getDiskSpace().free: bavail * bsize, or 0 when statfs throws
getDiskSpace(statfsOk, bavailBytes) == IF statfsOk THEN bavailBytes ELSE 0

minFreeBytes == MIN_FREE_SPACE_MB * BytesPerMB

\* faulty variant of spaceMultiplierX2: no extra space for the transcode
spaceMultiplierSame(isVideo) == 2

\* twice the spaceMultiplier of the upload handler (2.5 for a video, 1 for
\* an image), so that the required space stays an integer
spaceMultiplierX2(isVideo) == IF isVideo THEN 5 ELSE 2

\* faulty variant of hasEnoughSpace: the floor itself counts as enough
hasEnoughSpaceOrEqual(free, requiredBytesX2) ==
    2 * free - requiredBytesX2 >= 2 * minFreeBytes

\* hasEnoughSpace: free - requiredBytes > minFreeBytes, with both sides
\* doubled because requiredBytes is passed as twice its value
hasEnoughSpace(free, requiredBytesX2) ==
    2 * free - requiredBytesX2 > 2 * minFreeBytes

\* free-space values statfs reports: none, enough for an image only, and
\* enough for a video
FreeValues ==
    {0, minFreeBytes + FileSize + 1, minFreeBytes + (5 * FileSize) \div 2 + 1}

(***************************************************************************)
(* Upload handler, type validation (index.ts 331-349, 408-411).            *)
(***************************************************************************)
\* detectedType?.mime || clientMimeType
actualMimeType(detectedType, clientMimeType) ==
    IF detectedType.mime # "" THEN detectedType.mime ELSE clientMimeType

\* detectedType?.ext ? `.${detectedType.ext}` : path.extname(originalname).toLowerCase()
uploadExt(detectedType, originalname) ==
    IF detectedType.ext # ""
    THEN "." \o detectedType.ext
    ELSE toLowerCase(extname(originalname))

\* faulty variant of nanoid: every request draws the same id
nanoidRepeats(r) == 1

\* nanoid(12): 72 random bits, taken to be collision free; the request
\* numbered r of the run numbered boots draws the id boots * NumReq + r
nanoid(r) == boots * NumReq + r

\* requests are numbered in the order in which their handlers start
Arrives(r) == pc[r] = "idle" /\ (IF r = 1 THEN TRUE ELSE pc[r - 1] # "idle")

IsImage(r) == loc[r].actualMimeType \in ALLOWED_IMAGE_TYPES
IsVideo(r) == loc[r].actualMimeType \in ALLOWED_VIDEO_TYPES

(***************************************************************************)
(* Video codec analysis (transcode.ts: analyzeVideoCodecs,                 *)
(* needsTranscoding).                                                      *)
(***************************************************************************)
\* faulty variant of analyzeVideoCodecs: the container is not looked at
analyzeVideoCodecsAnyContainer(probeOk, probe, filePathExt) ==
    IF ~probeOk
    THEN [container |-> "unknown", videoCodec |-> "", audioCodec |-> "",
          isWebCompatible |-> FALSE]
    ELSE LET container == IF probe.container # "" THEN probe.container ELSE "unknown"
             videoCodec == toLowerCase(probe.video)
             audioCodec == toLowerCase(probe.audio)
             isH264 == videoCodec # "" /\ videoCodec \in WEB_COMPATIBLE_VIDEO_CODECS
             isAACOrNoAudio ==
                 audioCodec = "" \/ audioCodec \in WEB_COMPATIBLE_AUDIO_CODECS
         IN  [container |-> container, videoCodec |-> videoCodec,
              audioCodec |-> audioCodec,
              isWebCompatible |-> isH264 /\ isAACOrNoAudio]

\* probeOk is FALSE when ffprobe fails or prints no JSON
analyzeVideoCodecs(probeOk, probe, filePathExt) ==
    IF ~probeOk
    THEN [container |-> "unknown", videoCodec |-> "", audioCodec |-> "",
          isWebCompatible |-> FALSE]
    ELSE LET container == IF probe.container # "" THEN probe.container ELSE "unknown"
             videoCodec == toLowerCase(probe.video)
             audioCodec == toLowerCase(probe.audio)
             isMP4Container ==
                 (container = "mov" /\ filePathExt = ".mp4") \/ container = "mp4"
             isH264 == videoCodec # "" /\ videoCodec \in WEB_COMPATIBLE_VIDEO_CODECS
             isAACOrNoAudio ==
                 audioCodec = "" \/ audioCodec \in WEB_COMPATIBLE_AUDIO_CODECS
         IN  [container |-> container, videoCodec |-> videoCodec,
              audioCodec |-> audioCodec,
              isWebCompatible |-> isMP4Container /\ isH264 /\ isAACOrNoAudio]

\* faulty variant of needsTranscoding: the test is inverted
needsTranscodingInverted(codecInfo) == codecInfo.isWebCompatible

needsTranscoding(codecInfo) == ~codecInfo.isWebCompatible

\* extractVideoThumbnail: writes a poster of the video into thumbnails/ and
\* returns its url, or returns null and writes nothing
extractVideoThumbnail(posters, videoExists, id, ok) ==
    IF ok /\ videoExists THEN posters \cup {id} ELSE posters

(***************************************************************************)
(* Responses.                                                              *)
(***************************************************************************)
ErrorResp(status) == [NoResp EXCEPT !.status = status]

\* faulty variant of deleteErrorStatus: every error is a generic failure
deleteErrorStatusGeneric(code) == 500

\* 714-719: the catch of the delete handler
deleteErrorStatus(code) == IF code = "ENOENT" THEN 404 ELSE 500

\* faulty variant of uploadCatchStatus: a failed transcode gets a status of
\* its own
uploadCatchStatusByKind(error) == IF error = "transcode" THEN 502 ELSE 500

\* 519-525: the catch of the upload handler answers every thrown error
\* with the same status
uploadCatchStatus(error) == 500

\* the error response of an upload; error is the kind of the failure:
\* "malformed request", "unsupported type", "insufficient storage",
\* "metadata extraction", "transcode" or "io"
UploadError(status, error) == [NoResp EXCEPT !.status = status, !.error = error]

\* an error thrown inside the try of the upload handler
UploadThrows(error) == UploadError(uploadCatchStatus(error), error)

Reply(r, response) ==
    /\ resp' = [resp EXCEPT ![r] = response]
    /\ pc' = [pc EXCEPT ![r] = "done"]

TempName(r) == [id |-> loc[r].id, temp |-> TRUE, ext |-> loc[r].ext]


\* faulty variant of isDuplicate: the handler goes on to the capacity check
\* whatever the lookup returned
isDuplicateNever(existingFile) == FALSE

\* 355: if (existingFile), the test that enters the duplicate branch, which
\* ends with return res.json before the capacity check of 399-406
isDuplicate(existingFile) == existingFile # NoEntry

(***************************************************************************)
(* POST /upload (index.ts 320-527).                                        *)
(***************************************************************************)
\* 326-355, 399-401: the request arrives, the type is sniffed and checked,
\* the content is hashed and looked up in the duplicate index
UploadValidate(r, f) ==
    /\ Arrives(r)
    /\ kind' = [kind EXCEPT ![r] = "upload"]
    /\ file' = [file EXCEPT ![r] = f]
    /\ hist' = [hist EXCEPT ![r].prior = IF f = NoFile THEN NoUrl ELSE lastOk[f.buffer]]
    /\ LET detectedType == fileTypeFromBuffer(f.buffer)
           actual == actualMimeType(detectedType, f.mimetype)
           isImage == actual \in ALLOWED_IMAGE_TYPES
           isVideo == actual \in ALLOWED_VIDEO_TYPES
           existingFile == findDuplicate(calculateHash(f.buffer))
       IN  IF f = NoFile \/ (~isImage /\ ~isVideo)
           THEN /\ Reply(r, UploadError(400, IF f = NoFile THEN "malformed request"
                                                  ELSE "unsupported type"))
                /\ loc' = [loc EXCEPT ![r].actualMimeType = IF f = NoFile THEN "" ELSE actual]
           ELSE /\ loc' = [loc EXCEPT ![r].actualMimeType = actual,
                                      ![r].existingFile = existingFile]
                /\ pc' = [pc EXCEPT ![r] = IF isDuplicate(existingFile)
                                           THEN "duplicate" ELSE "capacity"]
                /\ resp' = resp
    /\ UNCHANGED <<config, files, thumbs, hashIndex, indexFile, lastOk>>

\* 355-397: the duplicate branch; metadata is read again from the stored
\* file (errors are swallowed) and, for a video, a poster is extracted
UploadDuplicate(r, thumbOk) ==
    /\ pc[r] = "duplicate"
    /\ LET existingFile == loc[r].existingFile
           subdir == IF existingFile.type = "image" THEN "images" ELSE "videos"
           stored == Exists(files, subdir, existingFile.filename)
       IN  /\ existingFile.type = "image" => ~thumbOk
           /\ thumbOk => stored
           /\ thumbs' = IF existingFile.type = "image" THEN thumbs
                        ELSE extractVideoThumbnail(thumbs, stored, existingFile.filename.id, thumbOk)
           /\ hist' = [hist EXCEPT ![r].wrote =
                          IF thumbs' # thumbs
                          THEN @ \cup {Path("thumbnails", existingFile.filename)} ELSE @]
           /\ Reply(r, [NoResp EXCEPT !.status = 200, !.duplicate = TRUE,
                                      !.url = existingFile.url,
                                      !.mimeType = loc[r].actualMimeType,
                                      !.copies = Copies(files, file[r].buffer)])
           /\ lastOk' = [lastOk EXCEPT ![file[r].buffer] = existingFile.url]
    /\ UNCHANGED <<config, files, hashIndex, indexFile, arrival, file, loc>>

\* 399-417: the capacity check, then the id and the extension
UploadCapacity(r, statfsOk, bavailBytes) ==
    /\ pc[r] = "capacity"
    /\ statfsOk \/ bavailBytes = 0
    /\ LET free == getDiskSpace(statfsOk, bavailBytes)
           requiredX2 == file[r].size * spaceMultiplierX2(IsVideo(r))
           enough == hasEnoughSpace(free, requiredX2)
       IN  /\ hist' = [hist EXCEPT ![r].checked = TRUE, ![r].statfsFailed = ~statfsOk,
                                   ![r].free = free, ![r].requiredX2 = requiredX2,
                                   ![r].enough = enough]
           /\ IF ~enough
              THEN /\ Reply(r, UploadError(507, "insufficient storage"))
                   /\ loc' = loc
              ELSE /\ loc' = [loc EXCEPT
                                ![r].ext = uploadExt(fileTypeFromBuffer(file[r].buffer),
                                                     file[r].originalname),
                                ![r].id = nanoid(r),
                                ![r].finalMimeType = loc[r].actualMimeType]
                   /\ pc' = [pc EXCEPT ![r] = IF IsImage(r) THEN "extract" ELSE "writeTemp"]
                   /\ resp' = resp
    /\ UNCHANGED <<config, files, thumbs, hashIndex, indexFile, arrival, file, lastOk>>

\* what the request did, once it has changed the Map and saveHashIndex has
\* taken the entries to write: two index mutations overlap when one starts
\* while the write of the other is pending
MutationStarts(r, written, added) ==
    [q \in Req |->
        IF q = r
        THEN [hist[q] EXCEPT !.wrote = @ \cup written,
                             !.indexed = added,
                             !.overlap = \E o \in Req : pc[o] = "saveIndex"]
        ELSE [hist[q] EXCEPT !.overlap = @ \/ pc[q] = "saveIndex"]]

\* faulty variant of AddToHashIndex: the entries to write are taken before
\* the entry is put into the Map
AddToHashIndexSavesFirst(r, finalFilename) ==
    LET subdir == IF IsImage(r) THEN "images" ELSE "videos"
        entry == [hash |-> calculateHash(file[r].buffer),
                  filename |-> finalFilename,
                  type |-> IF IsImage(r) THEN "image" ELSE "video",
                  url |-> [subdir |-> subdir, filename |-> finalFilename]]
    IN  /\ hashIndex' = IndexSet(hashIndex, entry)
        /\ loc' = [loc EXCEPT ![r].finalFilename = finalFilename,
                              ![r].entries = hashIndex]
        /\ pc' = [pc EXCEPT ![r] = "saveIndex"]

\* 502-508 with 94-97 and 88-89: addToHashIndex puts the entry into the Map
\* and saveHashIndex takes the entries to write; the write is still pending
AddToHashIndex(r, finalFilename) ==
    LET subdir == IF IsImage(r) THEN "images" ELSE "videos"
        entry == [hash |-> calculateHash(file[r].buffer),
                  filename |-> finalFilename,
                  type |-> IF IsImage(r) THEN "image" ELSE "video",
                  url |-> [subdir |-> subdir, filename |-> finalFilename]]
    IN  /\ hashIndex' = IndexSet(hashIndex, entry)
        /\ loc' = [loc EXCEPT ![r].finalFilename = finalFilename,
                              ![r].entries = hashIndex']
        /\ pc' = [pc EXCEPT ![r] = "saveIndex"]

\* faulty variant of UploadImageMetadata: the image is written before its
\* metadata is extracted
UploadImageMetadataAfterWrite(r, ok) ==
    /\ pc[r] = "extract"
    /\ files' = WriteFile(files, "images", [id |-> loc[r].id, temp |-> FALSE, ext |-> loc[r].ext],
                          file[r].buffer, "original")
    /\ IF ok
       THEN /\ pc' = [pc EXCEPT ![r] = "writeImage"]
            /\ resp' = resp
       ELSE Reply(r, UploadThrows("metadata extraction"))
    /\ UNCHANGED <<config, thumbs, hashIndex, indexFile,
                   arrival, file, loc, hist, lastOk>>

\* 421: extractImageMetadata of the buffer; throws when sharp finds no
\* dimensions
UploadImageMetadata(r, ok) ==
    /\ pc[r] = "extract"
    /\ IF ok
       THEN /\ pc' = [pc EXCEPT ![r] = "writeImage"]
            /\ resp' = resp
       ELSE Reply(r, UploadThrows("metadata extraction"))
    /\ UNCHANGED <<config, files, thumbs, hashIndex, indexFile,
                   arrival, file, loc, hist, lastOk>>

\* 426-428, 499-508: the image is written under its final name and the
\* index entry is added
UploadImageWrite(r, ok) ==
    /\ pc[r] = "writeImage"
    /\ LET finalFilename == [id |-> loc[r].id, temp |-> FALSE, ext |-> loc[r].ext]
       IN  IF ok
           THEN /\ files' = WriteFile(files, "images", finalFilename, file[r].buffer, "original")
                /\ AddToHashIndex(r, finalFilename)
                /\ hist' = MutationStarts(r, {Path("images", finalFilename)}, TRUE)
                /\ resp' = resp
           ELSE /\ Reply(r, UploadThrows("io"))
                /\ UNCHANGED <<files, hashIndex, loc, hist>>
    /\ UNCHANGED <<config, thumbs, indexFile, arrival, file, lastOk>>

\* 431-433: the video is written to {id}_temp{ext} in videos/
UploadVideoTemp(r, ok) ==
    /\ pc[r] = "writeTemp"
    /\ IF ok
       THEN /\ files' = WriteFile(files, "videos", TempName(r), file[r].buffer, "original")
            /\ hist' = [hist EXCEPT ![r].wrote = @ \cup {Path("videos", TempName(r))}]
            /\ pc' = [pc EXCEPT ![r] = "analyze"]
            /\ resp' = resp
       ELSE /\ Reply(r, UploadThrows("io"))
            /\ UNCHANGED <<files, hist>>
    /\ UNCHANGED <<config, thumbs, hashIndex, indexFile,
                   arrival, file, loc, lastOk>>

\* 437-446, 468-473: the codecs are analysed; ffmpeg is spawned, or the
\* rename of the temporary file is issued
UploadVideoAnalyze(r, probeOk) ==
    /\ pc[r] = "analyze"
    /\ probeOk => Exists(files, "videos", TempName(r))
    /\ LET codecInfo == analyzeVideoCodecs(probeOk, ProbeOutput(file[r].buffer), loc[r].ext)
           transcode == needsTranscoding(codecInfo)
       IN  /\ loc' = [loc EXCEPT ![r].codecInfo = codecInfo,
                                 ![r].finalFilename =
                                     [id |-> loc[r].id, temp |-> FALSE,
                                      ext |-> IF transcode THEN ".mp4" ELSE loc[r].ext]]
           /\ pc' = [pc EXCEPT ![r] = IF transcode THEN "ffmpeg" ELSE "rename"]
    /\ UNCHANGED <<config, files, thumbs, hashIndex, indexFile,
                   arrival, file, resp, hist, lastOk>>


\* the files whose unlink was attempted, existed and failed
FailedUnlinks(fs, attempts) ==
    {Path(a.dir, a.name) : a \in {b \in attempts : Exists(fs, b.dir, b.name) /\ ~b.ok}}

\* the file system after the attempted unlinks
AfterUnlinks(fs, attempts) ==
    {x \in fs : ~\E a \in attempts : a.ok /\ a.dir = x.dir /\ a.name = x.name}

Attempt(dir, name, ok) == [dir |-> dir, name |-> name, ok |-> ok]

\* transcode.ts transcodeVideo 245: ffmpeg opens the input and starts to
\* write its output at the final path videos/{id}.mp4
TranscodeOutput(r) ==
    /\ pc[r] = "ffmpeg"
    /\ Exists(files, "videos", TempName(r))
    /\ files' = WriteFile(files, "videos", loc[r].finalFilename, file[r].buffer, "partial")
    /\ hist' = [hist EXCEPT ![r].wrote = @ \cup {Path("videos", loc[r].finalFilename)}]
    /\ pc' = [pc EXCEPT ![r] = "ffmpegOut"]
    /\ UNCHANGED <<config, thumbs, hashIndex, indexFile,
                   arrival, file, loc, resp, lastOk>>

\* faulty variant of TranscodeExitZero: a failed unlink of the input rejects the
\* promise and the handler answers 500
TranscodeExitZeroNeedsUnlink(r, unlinkOk) ==
    /\ pc[r] = "ffmpegOut"
    /\ LET attempts == {Attempt("videos", TempName(r), unlinkOk)}
           finished == {IF x.dir = "videos" /\ x.name = loc[r].finalFilename
                        THEN [x EXCEPT !.bytes = "transcoded"] ELSE x : x \in files}
       IN  /\ files' = AfterUnlinks(finished, attempts)
           /\ hist' = [hist EXCEPT ![r].unlinkFailed = @ \cup FailedUnlinks(files, attempts)]
    /\ loc' = [loc EXCEPT ![r].transcoded = "true", ![r].finalMimeType = "video/mp4"]
    /\ IF unlinkOk \/ ~Exists(files, "videos", TempName(r))
       THEN pc' = [pc EXCEPT ![r] = "videoMeta"] /\ resp' = resp
       ELSE Reply(r, UploadThrows("transcode"))
    /\ UNCHANGED <<config, thumbs, hashIndex, indexFile,
                   arrival, file, lastOk>>

\* transcodeVideo 255-275 and index.ts 447-449: ffmpeg exits with code 0,
\* the input is unlinked (a failure is logged only) and the promise resolves
TranscodeExitZero(r, unlinkOk) ==
    /\ pc[r] = "ffmpegOut"
    /\ LET attempts == {Attempt("videos", TempName(r), unlinkOk)}
           finished == {IF x.dir = "videos" /\ x.name = loc[r].finalFilename
                        THEN [x EXCEPT !.bytes = "transcoded"] ELSE x : x \in files}
       IN  /\ files' = AfterUnlinks(finished, attempts)
           /\ hist' = [hist EXCEPT ![r].unlinkFailed = @ \cup FailedUnlinks(files, attempts)]
    /\ loc' = [loc EXCEPT ![r].transcoded = "true", ![r].finalMimeType = "video/mp4"]
    /\ pc' = [pc EXCEPT ![r] = "videoMeta"]
    /\ UNCHANGED <<config, thumbs, hashIndex, indexFile,
                   arrival, file, resp, lastOk>>

\* faulty variant of TranscodeReject: the handler answers 500 without cleaning up
TranscodeRejectNoCleanup(r, outUnlinkOk, tempUnlinkOk) ==
    /\ hist' = [hist EXCEPT ![r].transcodeFailed = TRUE]
    /\ resp' = [resp EXCEPT ![r] = UploadThrows("transcode")]
    /\ pc' = [pc EXCEPT ![r] = "done"]
    /\ UNCHANGED <<config, files, thumbs, hashIndex, indexFile,
                   arrival, file, loc, lastOk>>

\* transcodeVideo 276-295 with index.ts 492-496 and 519-525: the partial
\* output is unlinked, the promise rejects, the handler unlinks the
\* temporary input (both unlink errors are swallowed) and answers 500
TranscodeReject(r, outUnlinkOk, tempUnlinkOk) ==
    /\ LET attempts == {Attempt("videos", loc[r].finalFilename, outUnlinkOk),
                        Attempt("videos", TempName(r), tempUnlinkOk)}
       IN  /\ files' = AfterUnlinks(files, attempts)
           /\ hist' = [hist EXCEPT ![r].transcodeFailed = TRUE,
                                   ![r].unlinkFailed = @ \cup FailedUnlinks(files, attempts)]
    /\ Reply(r, UploadThrows("transcode"))
    /\ UNCHANGED <<config, thumbs, hashIndex, indexFile,
                   arrival, file, loc, lastOk>>

\* transcodeVideo 276-285: ffmpeg exits with a code other than 0
TranscodeExitNonZero(r, outUnlinkOk, tempUnlinkOk) ==
    /\ pc[r] \in {"ffmpeg", "ffmpegOut"}
    /\ TranscodeReject(r, outUnlinkOk, tempUnlinkOk)

\* transcodeVideo 287-295: ffmpeg could not be spawned
TranscodeSpawnError(r, outUnlinkOk, tempUnlinkOk) ==
    /\ pc[r] = "ffmpeg"
    /\ TranscodeReject(r, outUnlinkOk, tempUnlinkOk)

\* 468-473 and 492-496: the temporary file is renamed to its final name; a
\* failed rename is caught, the temporary file unlinked and 500 answered
UploadVideoRename(r, ok, tempUnlinkOk) ==
    /\ pc[r] = "rename"
    /\ ok => Exists(files, "videos", TempName(r))
    /\ IF ok
       THEN /\ tempUnlinkOk
            /\ files' = WriteFile(Unlink(files, "videos", TempName(r)), "videos",
                                  loc[r].finalFilename, file[r].buffer, "original")
            /\ hist' = [hist EXCEPT ![r].wrote = @ \cup {Path("videos", loc[r].finalFilename)}]
            /\ loc' = [loc EXCEPT ![r].transcoded = "false"]
            /\ pc' = [pc EXCEPT ![r] = "videoMeta"]
            /\ resp' = resp
       ELSE LET attempts == {Attempt("videos", TempName(r), tempUnlinkOk)}
            IN  /\ files' = AfterUnlinks(files, attempts)
                /\ hist' = [hist EXCEPT ![r].unlinkFailed = @ \cup FailedUnlinks(files, attempts)]
                /\ Reply(r, UploadThrows("io"))
                /\ loc' = loc
    /\ UNCHANGED <<config, thumbs, hashIndex, indexFile,
                   arrival, file, lastOk>>

\* 451-467, 475-490, 499-508: metadata and poster are extracted from the
\* final file (neither throws) and the index entry is added
UploadVideoMetadata(r, thumbOk) ==
    /\ pc[r] = "videoMeta"
    /\ LET stored == Exists(files, "videos", loc[r].finalFilename)
       IN  /\ thumbOk => stored
           /\ thumbs' = extractVideoThumbnail(thumbs, stored, loc[r].id, thumbOk)
    /\ AddToHashIndex(r, loc[r].finalFilename)
    /\ hist' = MutationStarts(r, IF thumbOk
                                 THEN {Path("thumbnails", loc[r].finalFilename)}
                                 ELSE {}, TRUE)
    /\ UNCHANGED <<config, files, indexFile, arrival, file, resp, lastOk>>

\* faulty variant of SaveHashIndex: the handler answers before the write of
\* .hash-index.json has landed
SaveHashIndexAnswersFirst(r, ok) ==
    /\ pc[r] = "saveIndex"
    /\ indexFile' = indexFile
    /\ IF kind[r] = "upload"
       THEN LET url == [subdir |-> IF IsImage(r) THEN "images" ELSE "videos",
                        filename |-> loc[r].finalFilename]
            IN  /\ Reply(r, [NoResp EXCEPT !.status = 200, !.url = url,
                                           !.mimeType = loc[r].finalMimeType,
                                           !.transcoded = loc[r].transcoded,
                                           !.copies = Copies(files, file[r].buffer)])
                /\ lastOk' = [lastOk EXCEPT ![file[r].buffer] = url]
       ELSE Reply(r, [NoResp EXCEPT !.status = 200]) /\ lastOk' = lastOk
    /\ UNCHANGED <<config, files, thumbs, hashIndex, arrival, file, loc, hist>>

\* 90 and 510-525, 713-720: the pending write of .hash-index.json lands and
\* the handler responds; when the write fails the handler answers 500
SaveHashIndex(r, ok) ==
    /\ pc[r] = "saveIndex"
    /\ indexFile' = IF ok THEN [exists |-> TRUE, entries |-> loc[r].entries] ELSE indexFile
    /\ IF ~ok
       THEN /\ Reply(r, IF kind[r] = "upload" THEN UploadThrows("io")
                                               ELSE ErrorResp(deleteErrorStatus("EIO")))
            /\ lastOk' = lastOk
       ELSE IF kind[r] = "upload"
       THEN LET url == [subdir |-> IF IsImage(r) THEN "images" ELSE "videos",
                        filename |-> loc[r].finalFilename]
            IN  /\ Reply(r, [NoResp EXCEPT !.status = 200, !.url = url,
                                           !.mimeType = loc[r].finalMimeType,
                                           !.transcoded = loc[r].transcoded,
                                           !.copies = Copies(files, file[r].buffer)])
                /\ lastOk' = [lastOk EXCEPT ![file[r].buffer] = url]
       ELSE Reply(r, [NoResp EXCEPT !.status = 200]) /\ lastOk' = lastOk
    /\ UNCHANGED <<config, files, thumbs, hashIndex, arrival, file, loc, hist>>

(***************************************************************************)
(* DELETE /files/:type/:filename (index.ts 692-722).                       *)
(***************************************************************************)
\* a name no upload produces
MissingName == [id |-> 0, temp |-> FALSE, ext |-> ".png"]

\* the :filename parameters tried (Express decodes %2F): the names of the
\* files present and a missing one, plain or behind ../, the index file
\* behind ../, and ..
DeleteParams ==
    {[dirs |-> d, base |-> n] : d \in {"", "../"},
                                n \in {x.name : x \in files} \cup {MissingName}}
        \cup {[dirs |-> "../", base |-> IndexFileName], [dirs |-> "", base |-> DotDot]}

\* 698-720 with 100-107 and 88-89: the type is checked, the file at the
\* sanitized path is unlinked, the index entry with that file name is
\* removed and saveHashIndex takes the entries to write
Delete(r, type, raw, unlinkOk) ==
    /\ Arrives(r)
    /\ kind' = [kind EXCEPT ![r] = "delete"]
    /\ IF type # "images" /\ type # "videos"
       THEN /\ unlinkOk
            /\ Reply(r, ErrorResp(400))
            /\ hist' = [hist EXCEPT ![r].params = [type |-> type, filename |-> raw]]
            /\ UNCHANGED <<files, hashIndex, indexFile, loc, lastOk>>
       ELSE LET sanitizedFilename == basename(raw)
                filePath == join(type, sanitizedFilename)
                present == \/ Exists(files, filePath.dir, filePath.name)
                           \/ /\ filePath = [dir |-> ".", name |-> IndexFileName]
                              /\ indexFile.exists
                deleted == [subdir |-> filePath.dir, filename |-> filePath.name]
            IN  IF filePath.name = NoName
                THEN \* unlink of a directory: EISDIR
                     /\ unlinkOk
                     /\ Reply(r, ErrorResp(deleteErrorStatus("EISDIR")))
                     /\ hist' = [hist EXCEPT ![r].params = [type |-> type, filename |-> raw]]
                     /\ UNCHANGED <<files, hashIndex, indexFile, loc, lastOk>>
                ELSE IF ~present
                THEN \* ENOENT
                     /\ unlinkOk
                     /\ Reply(r, ErrorResp(deleteErrorStatus("ENOENT")))
                     /\ hist' = [hist EXCEPT ![r].params = [type |-> type, filename |-> raw]]
                     /\ UNCHANGED <<files, hashIndex, indexFile, loc, lastOk>>
                ELSE IF ~unlinkOk
                THEN /\ Reply(r, ErrorResp(deleteErrorStatus("EACCES")))
                     /\ hist' = [hist EXCEPT ![r].params = [type |-> type, filename |-> raw]]
                     /\ UNCHANGED <<files, hashIndex, indexFile, loc, lastOk>>
                ELSE /\ files' = Unlink(files, filePath.dir, filePath.name)
                     /\ indexFile' = IF filePath = [dir |-> ".", name |-> IndexFileName]
                                     THEN [exists |-> FALSE, entries |-> {}]
                                     ELSE indexFile
                     /\ hashIndex' = IndexRemove(hashIndex, sanitizedFilename)
                     /\ loc' = [loc EXCEPT ![r].entries = hashIndex']
                     /\ pc' = [pc EXCEPT ![r] = "saveIndex"]
                     /\ resp' = resp
                     /\ lastOk' = [c \in Contents |->
                                     IF lastOk[c] = deleted THEN NoUrl ELSE lastOk[c]]
                     /\ hist' = [q \in Req |->
                                   LET h == MutationStarts(r, {}, FALSE)[q]
                                   IN  IF q = r
                                       THEN [h EXCEPT
                                               !.params = [type |-> type, filename |-> raw],
                                               !.deleted = filePath]
                                       ELSE [h EXCEPT
                                               !.prior = IF @ = deleted THEN NoUrl ELSE @]]
    /\ UNCHANGED <<config, thumbs, file>>

(***************************************************************************)
(* Middleware in front of the handlers (index.ts 228-256) and the routes.  *)
(* A request is its route, its authorization header ("" when there is      *)
(* none) and its body: "none", "multipart", "json" or "malformed json".    *)
(***************************************************************************)
\* String.prototype.startsWith
startsWith(str, prefix) ==
    Len(str) >= Len(prefix) /\ SubSeq(str, 1, Len(prefix)) = prefix

\* String.prototype.slice(n)
slice(str, n) == SubSeq(str, n + 1, Len(str))

\* faulty variant of authenticate: every request passes
authenticateEveryone(key, authHeader) == 0

\* authenticate (231-251): the status answered, or 0 for next()
authenticate(key, authHeader) ==
    IF key = "" THEN 0
    ELSE IF authHeader = "" \/ ~startsWith(authHeader, "Bearer ") THEN 401
    ELSE IF slice(authHeader, 7) # key THEN 403
    ELSE 0

\* express.json() (228): a JSON body that does not parse ends the request
\* with 400 in the error handler; 0 for next()
jsonBodyParser(body) == IF body = "malformed json" THEN 400 ELSE 0

\* the middleware of a route in the order of registration: the body parser
\* of the application, then authenticate on every route but /health
Middleware(route, authHeader, body) ==
    IF jsonBodyParser(body) # 0 THEN jsonBodyParser(body)
    ELSE IF route = "health" THEN 0
    ELSE authenticate(API_KEY, authHeader)

Routes == {"upload", "list", "stats", "metadata", "delete", "health"}

Received(r, route, authHeader, body) ==
    request' = [request EXCEPT ![r] = [route |-> route, authorization |-> authHeader,
                                       body |-> body]]

\* a request that the middleware answers; no handler runs
Refused(r, route, authHeader, body) ==
    /\ Arrives(r)
    /\ Middleware(route, authHeader, body) # 0
    /\ Received(r, route, authHeader, body)
    /\ kind' = [kind EXCEPT ![r] = route]
    /\ Reply(r, ErrorResp(Middleware(route, authHeader, body)))
    /\ UNCHANGED <<config, files, thumbs, hashIndex, indexFile, file, loc, hist, lastOk>>

\* POST /upload (320-326): multer hands over the file of a multipart body
PostUpload(r, authHeader, body, f) ==
    /\ Middleware("upload", authHeader, body) = 0
    /\ body # "multipart" => f = NoFile
    /\ Received(r, "upload", authHeader, body)
    /\ UploadValidate(r, f)

\* DELETE /files/:type/:filename (692-696)
DeleteFile(r, authHeader, body, type, raw, unlinkOk) ==
    /\ Middleware("delete", authHeader, body) = 0
    /\ Received(r, "delete", authHeader, body)
    /\ Delete(r, type, raw, unlinkOk)

\* GET /health (254-256), GET /stats (259-317), GET /list (614-689): they
\* read and answer; what the answer lists is not recorded
Get(r, route, authHeader, body) ==
    /\ Arrives(r)
    /\ route \in {"health", "stats", "list"}
    /\ Middleware(route, authHeader, body) = 0
    /\ Received(r, route, authHeader, body)
    /\ kind' = [kind EXCEPT ![r] = route]
    /\ Reply(r, [NoResp EXCEPT !.status = 200])
    /\ UNCHANGED <<config, files, thumbs, hashIndex, indexFile, file, loc, hist, lastOk>>

\* POST /metadata (530-611) with url and type in a JSON body: 404 when the
\* file is not there; for type video a poster is extracted into
\* thumbnails/.  The handler is taken in one step.
PostMetadata(r, authHeader, url, type, thumbOk) ==
    /\ Arrives(r)
    /\ Middleware("metadata", authHeader, "json") = 0
    /\ Received(r, "metadata", authHeader, "json")
    /\ kind' = [kind EXCEPT ![r] = "metadata"]
    /\ LET stored == Exists(files, url.subdir, url.filename)
       IN  /\ thumbOk => (stored /\ type = "video")
           /\ thumbs' = IF type = "video"
                        THEN extractVideoThumbnail(thumbs, stored, url.filename.id, thumbOk)
                        ELSE thumbs
           /\ Reply(r, IF stored THEN [NoResp EXCEPT !.status = 200, !.url = url]
                                 ELSE ErrorResp(404))
    /\ UNCHANGED <<config, files, hashIndex, indexFile, file, loc, hist, lastOk>>

(***************************************************************************)
(* Start of the process (index.ts 756-785, transcode.ts 314-336).          *)
(***************************************************************************)
\* faulty variant of loadHashIndex: the table always starts empty
loadHashIndexFresh(backing) == {}

\* loadHashIndex (75-85): the entries parsed from .hash-index.json, keyed by
\* hash; an empty table when the file cannot be read
loadHashIndex(backing) == IF backing.exists THEN backing.entries ELSE {}

\* the twelve characters of an id.  The ids this run draws are numbered
\* from 1; a negative number is an id drawn by an earlier run, and -1 is an
\* id in which nanoid's alphabet (A-Za-z0-9_-) happens to spell _temp
idText(id) == IF id = -1 THEN "Uakg_tempQ7x" ELSE "V1StGXR8_Z" \o ToString(id)

\* the file name the upload handler builds (index.ts 426, 431, 443, 471):
\* `${id}${ext}` or `${id}_temp${ext}`
fileName(name) == idText(name.id) \o (IF name.temp THEN "_temp" ELSE "") \o name.ext

\* String.prototype.includes
includes(str, searchString) ==
    \E i \in 1..(Len(str) - Len(searchString) + 1) :
        SubSeq(str, i, i + Len(searchString) - 1) = searchString

\* cleanupOrphanedTempFiles: the files of videos/ whose name includes _temp
\* are unlinked when they are older than one hour
cleanupOrphanedTempFiles(fs, olderThanOneHour) ==
    {x \in fs : ~(x.dir = "videos" /\ includes(fileName(x.name), "_temp")
                    /\ olderThanOneHour)}

\* gracefulShutdown (736-753) and start (756-783): server.close lets the
\* requests in flight finish, the process exits and start() runs again on
\* the same upload directory
Restart(olderThanOneHour) ==
    /\ boots < MaxRestarts
    /\ \A r \in Req : pc[r] \in {"idle", "done"}
    /\ boots' = boots + 1
    /\ synced' = (synced /\ indexFile.exists /\ indexFile.entries = hashIndex)
    /\ hashIndex' = loadHashIndex(indexFile)
    /\ files' = cleanupOrphanedTempFiles(files, olderThanOneHour)
    /\ kind' = [r \in Req |-> "none"]
    /\ request' = [r \in Req |-> NoRequest]
    /\ pc' = [r \in Req |-> "idle"]
    /\ file' = [r \in Req |-> NoFile]
    /\ loc' = [r \in Req |-> NoLoc]
    /\ resp' = [r \in Req |-> NoResp]
    /\ hist' = [r \in Req |-> NoHist]
    /\ UNCHANGED <<MIN_FREE_SPACE_MB, API_KEY, call, returned, uploadLimiter,
                   thumbs, indexFile, lastOk>>

(***************************************************************************)
(* The server: requests arrive at any time and their handlers interleave   *)
(* at every await.                                                         *)
(***************************************************************************)
Next ==
    \E r \in Req :
        \/ \E f \in UploadInputs : PostUpload(r, "", "multipart", f)
        \/ \E thumbOk \in BOOLEAN : UploadDuplicate(r, thumbOk)
        \/ \E statfsOk \in BOOLEAN, bavailBytes \in FreeValues :
               UploadCapacity(r, statfsOk, bavailBytes)
        \/ \E ok \in BOOLEAN : UploadImageMetadata(r, ok)
        \/ \E ok \in BOOLEAN : UploadImageWrite(r, ok)
        \/ \E ok \in BOOLEAN : UploadVideoTemp(r, ok)
        \/ \E probeOk \in BOOLEAN : UploadVideoAnalyze(r, probeOk)
        \/ TranscodeOutput(r)
        \/ \E unlinkOk \in BOOLEAN : TranscodeExitZero(r, unlinkOk)
        \/ \E o \in BOOLEAN, t \in BOOLEAN : TranscodeExitNonZero(r, o, t)
        \/ \E o \in BOOLEAN, t \in BOOLEAN : TranscodeSpawnError(r, o, t)
        \/ \E ok \in BOOLEAN, t \in BOOLEAN : UploadVideoRename(r, ok, t)
        \/ \E thumbOk \in BOOLEAN : UploadVideoMetadata(r, thumbOk)
        \/ \E ok \in BOOLEAN : SaveHashIndex(r, ok)
        \/ \E type \in {"images", "videos", "thumbnails"}, raw \in DeleteParams,
              unlinkOk \in BOOLEAN : DeleteFile(r, "", "none", type, raw, unlinkOk)

Spec == Init /\ [][Next]_vars


(***************************************************************************)
(* The server under fair scheduling.  Node runs every continuation whose   *)
(* awaited file-system operation has completed, so the steps of a handler  *)
(* that wait for the file system are taken eventually.  ffprobe is run by  *)
(* exec without a timeout option (transcode.ts 173-175) and ffmpeg by      *)
(* spawn, with handlers for close and error only (245-296): the steps that *)
(* wait for the exit of a subprocess are taken only if the subprocess      *)
(* exits, and nothing makes it.                                            *)
(***************************************************************************)
\* the steps of request r that wait for the file system only
HandlerStep(r) ==
    \/ \E thumbOk \in BOOLEAN : UploadDuplicate(r, thumbOk)
    \/ \E statfsOk \in BOOLEAN, bavailBytes \in FreeValues :
           UploadCapacity(r, statfsOk, bavailBytes)
    \/ \E ok \in BOOLEAN : UploadImageMetadata(r, ok)
    \/ \E ok \in BOOLEAN : UploadImageWrite(r, ok)
    \/ \E ok \in BOOLEAN : UploadVideoTemp(r, ok)
    \/ \E ok \in BOOLEAN, t \in BOOLEAN : UploadVideoRename(r, ok, t)
    \/ \E thumbOk \in BOOLEAN : UploadVideoMetadata(r, thumbOk)
    \/ \E ok \in BOOLEAN : SaveHashIndex(r, ok)

\* the steps of request r that wait for ffprobe or ffmpeg to exit
SubprocessExit(r) ==
    \/ \E probeOk \in BOOLEAN : UploadVideoAnalyze(r, probeOk)
    \/ TranscodeOutput(r)
    \/ \E unlinkOk \in BOOLEAN : TranscodeExitZero(r, unlinkOk)
    \/ \E o \in BOOLEAN, t \in BOOLEAN : TranscodeExitNonZero(r, o, t)
    \/ \E o \in BOOLEAN, t \in BOOLEAN : TranscodeSpawnError(r, o, t)

FairSpec == Spec /\ \A r \in Req : WF_vars(HandlerStep(r))


(***************************************************************************)
(* The disk guard on its own: one upload reaches the capacity check under  *)
(* every explored value of MIN_FREE_SPACE_MB and of the free space.        *)
(***************************************************************************)
GuardFloors == {-1, 0, 1}

GuardFreeValues ==
    {f \in (0..(3 * FileSize)) \cup {minFreeBytes + k : k \in 0..(3 * FileSize)} : f >= 0}

GuardInit ==
    /\ MIN_FREE_SPACE_MB \in GuardFloors
    /\ API_KEY = ""
    /\ Started

GuardNext ==
    \/ \E f \in UploadInputs : PostUpload(1, "", "multipart", f)
    \/ \E statfsOk \in BOOLEAN, bavailBytes \in GuardFreeValues :
           UploadCapacity(1, statfsOk, bavailBytes)

GuardSpec == GuardInit /\ [][GuardNext]_vars


(***************************************************************************)
(* The server with and without an API key: requests of every route arrive  *)
(* with and without credentials; the handlers run without I/O failures.    *)
(***************************************************************************)
AuthKeys == {"", "k"}

AuthHeaders == {"", "Basic k", "Bearer", "Bearer k", "Bearer x"}

AuthInputs == {f \in UploadInputs : f.buffer \in {"png", "mp4"}}

AuthInit ==
    /\ MIN_FREE_SPACE_MB = DefaultMinFreeSpaceMB
    /\ API_KEY \in AuthKeys
    /\ Started

AuthNext ==
    \E r \in Req :
        \/ \E route \in Routes, h \in AuthHeaders, b \in {"none", "malformed json"} :
               Refused(r, route, h, b)
        \/ \E h \in AuthHeaders, f \in AuthInputs : PostUpload(r, h, "multipart", f)
        \/ \E h \in AuthHeaders, x \in files :
               DeleteFile(r, h, "none", x.dir, [dirs |-> "", base |-> x.name], TRUE)
        \/ \E h \in AuthHeaders, route \in {"health", "stats", "list"} :
               Get(r, route, h, "none")
        \/ \E h \in AuthHeaders, x \in files, thumbOk \in BOOLEAN :
               PostMetadata(r, h, [subdir |-> x.dir, filename |-> x.name],
                            IF x.dir = "images" THEN "image" ELSE "video", thumbOk)
        \/ \E thumbOk \in BOOLEAN : UploadDuplicate(r, thumbOk)
        \/ UploadCapacity(r, TRUE, minFreeBytes + (5 * FileSize) \div 2 + 1)
        \/ UploadImageMetadata(r, TRUE)
        \/ UploadImageWrite(r, TRUE)
        \/ UploadVideoTemp(r, TRUE)
        \/ UploadVideoAnalyze(r, TRUE)
        \/ UploadVideoRename(r, TRUE, TRUE)
        \/ \E thumbOk \in BOOLEAN : UploadVideoMetadata(r, thumbOk)
        \/ SaveHashIndex(r, TRUE)

AuthSpec == AuthInit /\ [][AuthNext]_vars


(***************************************************************************)
(* The server across a restart: uploads of recognised content without I/O  *)
(* failures, and the process shut down and started again.                  *)
(***************************************************************************)
RestartInputs == {f \in UploadInputs : f.buffer \in {"png", "mp4"}}

RestartNext ==
    \/ \E olderThanOneHour \in BOOLEAN : Restart(olderThanOneHour)
    \/ \E r \in Req :
           \/ \E f \in RestartInputs : PostUpload(r, "", "multipart", f)
           \/ \E thumbOk \in BOOLEAN : UploadDuplicate(r, thumbOk)
           \/ UploadCapacity(r, TRUE, minFreeBytes + (5 * FileSize) \div 2 + 1)
           \/ UploadImageMetadata(r, TRUE)
           \/ UploadImageWrite(r, TRUE)
           \/ UploadVideoTemp(r, TRUE)
           \/ UploadVideoAnalyze(r, TRUE)
           \/ UploadVideoRename(r, TRUE, TRUE)
           \/ \E thumbOk \in BOOLEAN : UploadVideoMetadata(r, thumbOk)
           \/ SaveHashIndex(r, TRUE)

RestartSpec == Init /\ [][RestartNext]_vars


(***************************************************************************)
(* Replacing a file: the runs of RestartSpec with DELETE requests for the  *)
(* files in storage, so that a file can be stored, deleted and uploaded    *)
(* again.                                                                  *)
(***************************************************************************)
ReplaceSpec ==
    Init /\ [][\/ RestartNext
              \/ \E r \in Req, type \in {"images", "videos"}, x \in files :
                     DeleteFile(r, "", "none", type, [dirs |-> "", base |-> x.name], TRUE)]_vars


(***************************************************************************)
(* Start on an upload directory that earlier runs have filled: videos/     *)
(* holds any of two stored videos, both in the index, and of a temporary   *)
(* file that a run left behind when it was killed.                         *)
(***************************************************************************)
EarlierVideos ==
    {[dir |-> "videos", name |-> [id |-> -1, temp |-> FALSE, ext |-> ".mp4"],
      content |-> "mp4", bytes |-> "original"],
     [dir |-> "videos", name |-> [id |-> -2, temp |-> FALSE, ext |-> ".mp4"],
      content |-> "mkv", bytes |-> "transcoded"],
     [dir |-> "videos", name |-> [id |-> -3, temp |-> TRUE, ext |-> ".mkv"],
      content |-> "mkv", bytes |-> "original"]}

CleanupInit ==
    /\ MIN_FREE_SPACE_MB = DefaultMinFreeSpaceMB
    /\ API_KEY = ""
    /\ boots = 0
    /\ synced = TRUE
    /\ call = NoCall
    /\ returned = NoCall
    /\ uploadLimiter = NoHits
    /\ files \in SUBSET EarlierVideos
    /\ thumbs = {}
    /\ hashIndex = {[hash |-> calculateHash(x.content), filename |-> x.name,
                      type |-> "video", url |-> [subdir |-> "videos", filename |-> x.name]] :
                        x \in {y \in files : ~y.name.temp}}
    /\ indexFile = [exists |-> TRUE, entries |-> hashIndex]
    /\ kind = [r \in Req |-> "none"]
    /\ request = [r \in Req |-> NoRequest]
    /\ pc = [r \in Req |-> "idle"]
    /\ file = [r \in Req |-> NoFile]
    /\ loc = [r \in Req |-> NoLoc]
    /\ resp = [r \in Req |-> NoResp]
    /\ hist = [r \in Req |-> NoHist]
    /\ lastOk = [c \in Contents |-> NoUrl]

CleanupSpec == CleanupInit /\ [][RestartNext]_vars


(***************************************************************************)
(* The upload limiter (index.ts 195-201, 320-324) on its own: uploads      *)
(* arrive from two addresses and the window of the limiter expires.  The   *)
(* ingestion handler a request reaches is not run here; in the other       *)
(* specifications fewer uploads arrive than the limiter lets through.      *)
(***************************************************************************)
\* max of uploadLimiter
UploadLimitMax == 20

\* express-rate-limit with its default keyGenerator and store: a hit is
\* counted for the key req.ip, and the request is answered 429 when the
\* hits of its key in the window exceed max
rateLimit(store, ip) ==
    LET totalHits == store.hits[ip] + 1
    IN  IF totalHits > UploadLimitMax
        THEN [store EXCEPT !.hits[ip] = totalHits, !.status = 429]
        ELSE [store EXCEPT !.hits[ip] = totalHits, !.passed = @ + 1, !.status = 0]

\* POST /upload from the address ip (320-324): authenticate, then the
\* limiter; hits beyond the first refused one are not explored
LimitedUpload(ip) ==
    /\ Middleware("upload", "", "multipart") = 0
    /\ uploadLimiter.hits[ip] <= UploadLimitMax
    /\ uploadLimiter' = rateLimit(uploadLimiter, ip)
    /\ UNCHANGED <<server, call, returned>>

\* windowMs has passed: the store forgets the hits of the window
WindowExpires ==
    /\ uploadLimiter.hits # NoHits.hits
    /\ uploadLimiter' = [uploadLimiter EXCEPT !.hits = NoHits.hits, !.passed = 0]
    /\ UNCHANGED <<server, call, returned>>

LimiterNext ==
    \/ \E ip \in Clients : LimitedUpload(ip)
    \/ WindowExpires

LimiterSpec == Init /\ [][LimiterNext]_vars


(***************************************************************************)
(* analyzeVideoCodecs on its own, on probe results of every shape: the     *)
(* first component of format_name, the codec_name of the first video and   *)
(* of the first audio stream ("" where there is none) and the extension of *)
(* the path probed.                                                        *)
(***************************************************************************)
ProbeResults ==
    [container : {"", "mov", "mp4", "matroska", "avi"},
     video : {"", "h264", "H264", "avc1", "avc", "hevc", "vp9"},
     audio : {"", "aac", "AAC", "mp4a", "opus"}]

ProbedExts == {".mp4", ".mov", ".mkv"}

AnalyzeVideoCodecs(probeOk, probe, filePathExt) ==
    /\ call.fn = ""
    /\ call' = [fn |-> "analyzeVideoCodecs", probeOk |-> probeOk, probe |-> probe,
                filePathExt |-> filePathExt]
    /\ returned' = analyzeVideoCodecs(probeOk, probe, filePathExt)
    /\ UNCHANGED <<server, uploadLimiter>>

CodecNext ==
    \E probeOk \in BOOLEAN, probe \in ProbeResults, filePathExt \in ProbedExts :
        AnalyzeVideoCodecs(probeOk, probe, filePathExt)

CodecSpec == Init /\ [][CodecNext]_vars


(***************************************************************************)
(* Image metadata (metadata.ts 12-157).  A JavaScript value is a record of *)
(* its type t and its value v; an exposure time is the fraction num/den,   *)
(* a Date is its ISO string.  Coordinates are whole numbers of degrees,    *)
(* minutes and seconds, and a decimal coordinate is counted in 1/3600 of a *)
(* degree, so that degrees + minutes/60 + seconds/3600 stays an integer.   *)
(***************************************************************************)
Undefined == [t |-> "undefined"]
Str(s) == [t |-> "string", v |-> s]
Num(n) == [t |-> "number", v |-> n]
Arr(a) == [t |-> "array", v |-> a]
DateValue(iso) == [t |-> "date", v |-> iso]
Fraction(num, den) == [t |-> "fraction", num |-> num, den |-> den]

\* what a call that throws returns in the model
Throws == [t |-> "throws"]

\* !!x
truthy(x) ==
    CASE x.t = "undefined" -> FALSE
      [] x.t = "string" -> x.v # ""
      [] x.t = "number" -> x.v # 0
      [] x.t = "fraction" -> x.num # 0
      [] OTHER -> TRUE

\* String.prototype.indexOf(c, i) counted from 1; 0 when c does not occur
RECURSIVE indexOf(_, _, _)
indexOf(s, c, i) ==
    IF i > Len(s) THEN 0
    ELSE IF SubSeq(s, i, i) = c THEN i
    ELSE indexOf(s, c, i + 1)

\* the first two elements of String.prototype.split(' '); the second is
\* undefined when the string has no space
split(s) ==
    LET i == indexOf(s, " ", 1)
        rest == IF i = 0 THEN "" ELSE SubSeq(s, i + 1, Len(s))
        j == indexOf(rest, " ", 1)
    IN  [datePart |-> IF i = 0 THEN s ELSE SubSeq(s, 1, i - 1),
         timePart |-> IF i = 0 THEN Undefined
                      ELSE Str(IF j = 0 THEN rest ELSE SubSeq(rest, 1, j - 1))]

\* String.prototype.replace(/:/g, '-')
RECURSIVE replaceColons(_)
replaceColons(s) ==
    IF s = "" THEN ""
    ELSE (IF SubSeq(s, 1, 1) = ":" THEN "-" ELSE SubSeq(s, 1, 1))
             \o replaceColons(SubSeq(s, 2, Len(s)))

\* String.prototype.trim for spaces
RECURSIVE trim(_)
trim(s) ==
    IF s = "" THEN ""
    ELSE IF SubSeq(s, 1, 1) = " " THEN trim(SubSeq(s, 2, Len(s)))
    ELSE IF SubSeq(s, Len(s), Len(s)) = " " THEN trim(SubSeq(s, 1, Len(s) - 1))
    ELSE s

\* parseExifDate (13-30): undefined for a falsy value, the ISO string of a
\* Date, the date part with its colons replaced (and T and the time part)
\* of a string; a value without split makes the try throw and yields
\* undefined
parseExifDate(exifDate) ==
    IF ~truthy(exifDate) THEN Undefined
    ELSE IF exifDate.t = "date" THEN Str(exifDate.v)
    ELSE IF exifDate.t # "string" THEN Undefined
    ELSE LET parts == split(exifDate.v)
             isoDate == replaceColons(parts.datePart)
         IN  IF parts.datePart = "" THEN Undefined
             ELSE IF truthy(parts.timePart)
             THEN Str(isoDate \o "T" \o parts.timePart.v)
             ELSE Str(isoDate)

\* faulty variant of parseGpsCoordinate: the hemisphere is ignored
parseGpsCoordinateUnsigned(ref, coord) ==
    IF ~truthy(ref) \/ ~truthy(coord) THEN Undefined
    ELSE IF coord.t # "array" THEN Throws
    ELSE IF Len(coord.v) < 3 THEN Undefined
    ELSE Num(3600 * coord.v[1] + 60 * coord.v[2] + coord.v[3])

\* parseGpsCoordinate (33-47), in 1/3600 of a degree.  A coordinate that is
\* a single number has no length, passes the test of line 37 and makes the
\* destructuring of line 39 throw.
parseGpsCoordinate(ref, coord) ==
    IF ~truthy(ref) \/ ~truthy(coord) THEN Undefined
    ELSE IF coord.t # "array" THEN Throws
    ELSE IF Len(coord.v) < 3 THEN Undefined
    ELSE LET decimal == 3600 * coord.v[1] + 60 * coord.v[2] + coord.v[3]
         IN  Num(IF ref.v \in {"S", "W"} THEN -decimal ELSE decimal)

\* Math.round of the fraction num/den
round(num, den) == (2 * num + den) \div (2 * den)

\* formatExposureTime (50-54); an exposure of a second or more is a whole
\* number of seconds here
formatExposureTime(exposure) ==
    IF ~truthy(exposure) THEN Undefined
    ELSE IF exposure.num >= exposure.den
    THEN Str(ToString(exposure.num \div exposure.den) \o "s")
    ELSE Str("1/" \o ToString(round(exposure.den, exposure.num)))

\* the keys of result.exif in the order of their assignment
ExifKeys ==
    {"dateTime", "cameraMake", "cameraModel", "lensMake", "lensModel",
     "focalLength", "aperture", "iso", "exposureTime"}

\* an object without keys; absent tells that the result has no such key
EmptyObject ==
    [present |-> TRUE, keys |-> {}, dateTime |-> Undefined, cameraMake |-> Undefined,
     cameraModel |-> Undefined, lensMake |-> Undefined, lensModel |-> Undefined,
     focalLength |-> Undefined, aperture |-> Undefined, iso |-> Undefined,
     exposureTime |-> Undefined]

Absent == [EmptyObject EXCEPT !.present = FALSE]

NoLocation ==
    [present |-> FALSE, lat |-> Undefined, lon |-> Undefined, alt |-> Undefined,
     keys |-> {}]

\* what exif-reader returns without the GPS section; a missing tag is
\* undefined
NoTags ==
    [DateTimeOriginal |-> Undefined, DateTime |-> Undefined, Make |-> Undefined,
     Model |-> Undefined, LensMake |-> Undefined, LensModel |-> Undefined,
     FocalLength |-> Undefined, FNumber |-> Undefined,
     ISOSpeedRatings |-> Undefined, ExposureTime |-> Undefined]

NoGPSInfo ==
    [present |-> FALSE, GPSLatitudeRef |-> Undefined, GPSLatitude |-> Undefined,
     GPSLongitudeRef |-> Undefined, GPSLongitude |-> Undefined,
     GPSAltitude |-> Undefined]

\* 85-124: result.exif = {} and the assignments to its keys; a key is
\* assigned when its tag is truthy, whatever the value assigned
exifFields(exif) ==
    LET hasDate == truthy(exif.DateTimeOriginal) \/ truthy(exif.DateTime)
        date == IF truthy(exif.DateTimeOriginal) THEN exif.DateTimeOriginal
                ELSE exif.DateTime
        assigned ==
            [dateTime |-> hasDate, cameraMake |-> truthy(exif.Make),
             cameraModel |-> truthy(exif.Model), lensMake |-> truthy(exif.LensMake),
             lensModel |-> truthy(exif.LensModel),
             focalLength |-> truthy(exif.FocalLength),
             aperture |-> truthy(exif.FNumber),
             iso |-> truthy(exif.ISOSpeedRatings),
             exposureTime |-> truthy(exif.ExposureTime)]
    IN  [present |-> TRUE,
         keys |-> {k \in ExifKeys : assigned[k]},
         dateTime |-> IF assigned.dateTime THEN parseExifDate(date) ELSE Undefined,
         cameraMake |-> IF assigned.cameraMake THEN Str(trim(exif.Make.v)) ELSE Undefined,
         cameraModel |-> IF assigned.cameraModel THEN Str(trim(exif.Model.v)) ELSE Undefined,
         lensMake |-> IF assigned.lensMake THEN Str(trim(exif.LensMake.v)) ELSE Undefined,
         lensModel |-> IF assigned.lensModel THEN Str(trim(exif.LensModel.v)) ELSE Undefined,
         focalLength |-> IF assigned.focalLength THEN exif.FocalLength ELSE Undefined,
         aperture |-> IF assigned.aperture THEN exif.FNumber ELSE Undefined,
         iso |-> IF ~assigned.iso THEN Undefined
                 ELSE IF exif.ISOSpeedRatings.t = "array"
                 THEN (IF Len(exif.ISOSpeedRatings.v) > 0
                       THEN Num(exif.ISOSpeedRatings.v[1]) ELSE Undefined)
                 ELSE exif.ISOSpeedRatings,
         exposureTime |-> IF assigned.exposureTime
                          THEN formatExposureTime(exif.ExposureTime) ELSE Undefined]

\* 126-129: result.exif is deleted when it has no keys
cleanUp(exifObject) == IF exifObject.keys = {} THEN Absent ELSE exifObject

\* 142-148: result.location is set when both coordinates are defined
location(lat, lon, alt) ==
    IF lat # Undefined /\ lon # Undefined
    THEN [present |-> TRUE, lat |-> lat, lon |-> lon, alt |-> alt,
          keys |-> {"lat", "lon"} \cup (IF alt # Undefined THEN {"alt"} ELSE {})]
    ELSE NoLocation

\* Number((width / height).toFixed(4)), in 1/10000
aspectRatio(width, height) == round(10000 * width, height)

\* extractImageMetadata (56-157) of what sharp reports: width and height
\* (0 when undefined), whether there is an EXIF segment, and what
\* exif-reader makes of it: it throws ("unreadable") or returns the tags
\* and the GPS section.  caught tells that the catch of line 150 ran.
extractImageMetadata(metadata) ==
    IF metadata.width = 0 \/ metadata.height = 0
    THEN [threw |-> TRUE, caught |-> FALSE, width |-> 0, height |-> 0,
          aspectRatio |-> 0, lqip |-> FALSE, exif |-> Absent, location |-> NoLocation]
    ELSE LET result == [threw |-> FALSE, caught |-> FALSE,
                        width |-> metadata.width, height |-> metadata.height,
                        aspectRatio |-> aspectRatio(metadata.width, metadata.height),
                        lqip |-> TRUE, exif |-> Absent, location |-> NoLocation]
             gps == metadata.GPSInfo
             lat == parseGpsCoordinate(gps.GPSLatitudeRef, gps.GPSLatitude)
             lon == parseGpsCoordinate(gps.GPSLongitudeRef, gps.GPSLongitude)
             withExif == [result EXCEPT !.exif = cleanUp(exifFields(metadata.tags))]
         IN  IF metadata.exif = "absent" THEN result
             ELSE IF metadata.exif = "unreadable" THEN [result EXCEPT !.caught = TRUE]
             ELSE IF ~gps.present THEN withExif
             ELSE IF lat = Throws \/ (lat # Throws /\ lon = Throws)
             THEN [withExif EXCEPT !.caught = TRUE]
             ELSE [withExif EXCEPT !.location = location(lat, lon, gps.GPSAltitude)]

\* one function is evaluated once on one input
ExtractImageMetadata(metadata) ==
    /\ call.fn = ""
    /\ call' = [fn |-> "extractImageMetadata", metadata |-> metadata]
    /\ returned' = extractImageMetadata(metadata)
    /\ UNCHANGED <<server, uploadLimiter>>

ParseExifDate(exifDate) ==
    /\ call.fn = ""
    /\ call' = [fn |-> "parseExifDate", exifDate |-> exifDate]
    /\ returned' = parseExifDate(exifDate)
    /\ UNCHANGED <<server, uploadLimiter>>

ParseGpsCoordinate(ref, coord) ==
    /\ call.fn = ""
    /\ call' = [fn |-> "parseGpsCoordinate", ref |-> ref, coord |-> coord]
    /\ returned' = parseGpsCoordinate(ref, coord)
    /\ UNCHANGED <<server, uploadLimiter>>

(***************************************************************************)
(* The metadata functions on their own, on EXIF data of every shape.       *)
(***************************************************************************)
\* date tags: none, a full date, a date without time, the blank date of a
\* camera whose clock is not set, a Date
DateTags ==
    {Undefined, Str("2024:01:15 14:30:00"), Str("2024:01:15"),
     Str("    :  :     :  :  "), DateValue("2024-01-15T14:30:00.000Z")}

GpsRefs == {Undefined, Str(""), Str("N"), Str("S"), Str("E"), Str("W")}

\* coordinates: none, a single number, and arrays of 0, 2, 3 and 4 numbers
GpsCoords ==
    {Undefined, Num(59), Arr(<<>>), Arr(<<59, 54>>), Arr(<<0, 0, 0>>),
     Arr(<<59, 54, 36>>), Arr(<<10, 45, 0, 7>>)}

TagInputs ==
    {[NoTags EXCEPT !.DateTimeOriginal = d, !.Make = m, !.ISOSpeedRatings = i,
                    !.ExposureTime = e] :
        d \in DateTags, m \in {Undefined, Str(" Canon ")},
        i \in {Undefined, Arr(<<200, 400>>)},
        e \in {Undefined, Fraction(2, 1), Fraction(1, 250)}}

GpsInputs ==
    {NoGPSInfo} \cup
    {[present |-> TRUE, GPSLatitudeRef |-> lr, GPSLatitude |-> la,
      GPSLongitudeRef |-> nr, GPSLongitude |-> lo, GPSAltitude |-> al] :
        lr \in {Undefined, Str("N"), Str("S")},
        la \in {Undefined, Num(59), Arr(<<0, 0, 0>>), Arr(<<59, 54, 36>>)},
        nr \in {Undefined, Str("W")},
        lo \in {Num(10), Arr(<<0, 0, 0>>), Arr(<<10, 45, 0>>)},
        al \in {Undefined, Num(0)}}

MetadataInputs ==
    {[width |-> 0, height |-> 3, exif |-> "parsed", tags |-> NoTags, GPSInfo |-> NoGPSInfo]}
        \cup
    {[width |-> 4, height |-> 3, exif |-> x, tags |-> NoTags, GPSInfo |-> NoGPSInfo] :
        x \in {"absent", "unreadable"}}
        \cup
    {[width |-> 4, height |-> 3, exif |-> "parsed", tags |-> t, GPSInfo |-> g] :
        t \in TagInputs, g \in GpsInputs}

MetadataNext ==
    \/ \E metadata \in MetadataInputs : ExtractImageMetadata(metadata)
    \/ \E exifDate \in DateTags \cup {Num(20240115)} : ParseExifDate(exifDate)
    \/ \E ref \in GpsRefs, coord \in GpsCoords : ParseGpsCoordinate(ref, coord)

MetadataSpec == Init /\ [][MetadataNext]_vars


(***************************************************************************)
(* GET /list (index.ts 614-689) step by step, on storage directories that  *)
(* hold files with a modification time, next to the fs.unlink of DELETE    *)
(* requests that run at the same time.  call holds the local variables of  *)
(* the handler and returned the body it answers.                           *)
(***************************************************************************)
\* the files the directories can hold: an image and a video for every id,
\* with one of two modification times (the older is 1)
ListedFiles ==
    [dir : {"images"}, name : {[id |-> i, temp |-> FALSE, ext |-> ".png"] : i \in Req},
     content : {"png"}, bytes : {"original"}, mtime : {1, 2}]
        \cup
    [dir : {"videos"}, name : {[id |-> i, temp |-> FALSE, ext |-> ".mp4"] : i \in Req},
     content : {"mp4"}, bytes : {"original"}, mtime : {1, 2}]

\* the orders in which fs.readdir can return a set of names
Orders(names) ==
    {s \in [1..Cardinality(names) -> names] : \A n \in names : \E i \in DOMAIN s : s[i] = n}

\* fs.stat of a path: the file there, or the error ENOENT
stat(fs, dir, name) ==
    IF Exists(fs, dir, name) THEN CHOOSE x \in fs : x.dir = dir /\ x.name = name
    ELSE [code |-> "ENOENT"]

\* 640-648, 661-669: the record pushed for a file name
listRecord(dir, filename, st) ==
    [id |-> [filename EXCEPT !.ext = ""], filename |-> filename,
     url |-> [subdir |-> dir, filename |-> filename],
     type |-> IF dir = "images" THEN "image" ELSE "video",
     mtime |-> st.mtime, size |-> st.bytes]

\* where record goes in an array that is sorted with compare: behind the
\* records compare does not put after it
RECURSIVE insertSorted(_, _, _)
insertSorted(sorted, record, newestFirst) ==
    IF sorted = <<>> THEN <<record>>
    ELSE LET last == sorted[Len(sorted)]
             after == IF newestFirst THEN record.mtime > last.mtime
                                     ELSE record.mtime < last.mtime
         IN  IF after
             THEN Append(insertSorted(SubSeq(sorted, 1, Len(sorted) - 1), record, newestFirst),
                         last)
             ELSE Append(sorted, record)

RECURSIVE sortBy(_, _)
sortBy(array, newestFirst) ==
    IF array = <<>> THEN <<>>
    ELSE insertSorted(sortBy(SubSeq(array, 1, Len(array) - 1), newestFirst),
                      array[Len(array)], newestFirst)

\* faulty variant of sortNewestFirst: the comparator is a.mtime - b.mtime
sortOldestFirst(array) == sortBy(array, FALSE)

\* 676-677: Array.prototype.sort (stable) with the comparator
\* b.mtime.getTime() - a.mtime.getTime()
sortNewestFirst(array) == sortBy(array, TRUE)

\* 679-684: the body answered
listBody(images, videos) ==
    [images |-> sortNewestFirst(images), videos |-> sortNewestFirst(videos),
     total |-> Len(images) + Len(videos)]

\* the handler goes on after the loop over dir: to the readdir of
\* videos/, or to the sort and the answer
AfterLoop(dir, images, videos) ==
    IF dir = "images"
    THEN /\ call' = [call EXCEPT !.at = "readdir", !.dir = "videos", !.names = <<>>,
                                 !.images = images]
         /\ returned' = returned
    ELSE /\ call' = [call EXCEPT !.at = "done", !.names = <<>>, !.videos = videos]
         /\ returned' = listBody(call.images, videos)

\* 614-636: the request arrives and the handler awaits fs.readdir(imageDir)
ListArrives ==
    /\ call.fn = ""
    /\ Middleware("list", "", "none") = 0
    /\ call' = [fn |-> "list", at |-> "readdir", dir |-> "images", names |-> <<>>,
                images |-> <<>>, videos |-> <<>>, unlinked |-> {}]
    /\ UNCHANGED <<server, returned, uploadLimiter>>

\* 636-639 and 657-660: fs.readdir resolves with the names of the directory
\* in some order, or throws because the directory is not there; the
\* handler awaits the fs.stat of the first name
ListReaddir(names, dirExists) ==
    /\ call.fn = "list" /\ call.at = "readdir"
    /\ ~dirExists => readdir(files, call.dir) = {}
    /\ names \in Orders(readdir(files, call.dir))
    /\ IF dirExists /\ names # <<>>
       THEN call' = [call EXCEPT !.at = "stat", !.names = names] /\ returned' = returned
       ELSE AfterLoop(call.dir, call.images, call.videos)
    /\ UNCHANGED <<server, uploadLimiter>>

\* 639-649 and 660-670: fs.stat of the next name resolves and its record is
\* pushed, or it throws ENOENT and the catch around the loop ends the loop
ListStat ==
    /\ call.fn = "list" /\ call.at = "stat"
    /\ LET filename == Head(call.names)
           st == stat(files, call.dir, filename)
           thrown == st = [code |-> "ENOENT"]
           pushed == IF thrown THEN <<>> ELSE <<listRecord(call.dir, filename, st)>>
           images == IF call.dir = "images" THEN call.images \o pushed ELSE call.images
           videos == IF call.dir = "videos" THEN call.videos \o pushed ELSE call.videos
       IN  IF ~thrown /\ Tail(call.names) # <<>>
           THEN /\ call' = [call EXCEPT !.names = Tail(@), !.images = images,
                                        !.videos = videos]
                /\ returned' = returned
           ELSE AfterLoop(call.dir, images, videos)
    /\ UNCHANGED <<server, uploadLimiter>>

\* 705-708: the fs.unlink of a DELETE request that runs while the list
\* handler is suspended
UnlinkDuringList(dir, name) ==
    /\ call.fn = "list" /\ call.at # "done"
    /\ Exists(files, dir, name)
    /\ files' = Unlink(files, dir, name)
    /\ call' = [call EXCEPT !.unlinked = @ \cup {Path(dir, name)}]
    /\ UNCHANGED <<MIN_FREE_SPACE_MB, API_KEY, boots, synced, returned, uploadLimiter,
                   request, thumbs, hashIndex, indexFile, kind, pc, file, loc, resp, hist,
                   lastOk>>

\* the directories hold any files of ListedFiles, one of a name
ListInit ==
    /\ MIN_FREE_SPACE_MB = DefaultMinFreeSpaceMB
    /\ API_KEY = ""
    /\ boots = 0
    /\ synced = TRUE
    /\ call = NoCall
    /\ returned = NoCall
    /\ uploadLimiter = NoHits
    /\ files \in {fs \in SUBSET ListedFiles :
                    \A x, y \in fs : (x.dir = y.dir /\ x.name = y.name) => x = y}
    /\ thumbs = {}
    /\ hashIndex = {}
    /\ indexFile = [exists |-> FALSE, entries |-> {}]
    /\ kind = [r \in Req |-> "none"]
    /\ request = [r \in Req |-> NoRequest]
    /\ pc = [r \in Req |-> "idle"]
    /\ file = [r \in Req |-> NoFile]
    /\ loc = [r \in Req |-> NoLoc]
    /\ resp = [r \in Req |-> NoResp]
    /\ hist = [r \in Req |-> NoHist]
    /\ lastOk = [c \in Contents |-> NoUrl]

ListNext ==
    \/ ListArrives
    \/ /\ call.fn = "list"
       /\ \E dirExists \in BOOLEAN, names \in Orders(readdir(files, call.dir)) :
             ListReaddir(names, dirExists)
    \/ ListStat
    \/ \E x \in files : UnlinkDuringList(x.dir, x.name)

ListSpec == ListInit /\ [][ListNext]_vars


(***************************************************************************)
(* Properties.                                                             *)
(***************************************************************************)
Uploads == {r \in Req : kind[r] = "upload" /\ file[r] # NoFile}

Succeeded(r) == r \in Uploads /\ pc[r] = "done" /\ resp[r].status = 200

Stored(r) == Succeeded(r) /\ ~resp[r].duplicate

TempPath(r) == Path("videos", TempName(r))
OutputPath(r) == Path("videos", loc[r].finalFilename)

\* C1: an upload that starts after a success response for the same bytes,
\* with no delete of the stored file since, is answered with success,
\* duplicate: true and the url of that response, and exactly one file of
\* that content is then in images/ and videos/.
C1_ReuploadIsDuplicate ==
    \A r \in Uploads :
        (pc[r] = "done" /\ hist[r].prior # NoUrl) =>
            /\ resp[r].status = 200
            /\ resp[r].duplicate
            /\ resp[r].url = hist[r].prior
            /\ resp[r].copies = 1

\* C2: of the successful ingestions of one content, under every
\* interleaving, at most one stores a file and all answer with the same url.
C2_OneFilePerContent ==
    \A r1, r2 \in Req :
        (r1 # r2 /\ Succeeded(r1) /\ Succeeded(r2) /\ file[r1].buffer = file[r2].buffer) =>
            /\ ~(Stored(r1) /\ Stored(r2))
            /\ resp[r1].url = resp[r2].url

\* C3: an upload whose bytes do not sniff to an allowed image or video type
\* (no detected type included) is answered 400, whatever type was declared.
C3_SniffedTypeDecides ==
    \A r \in Uploads :
        LET sniffed == fileTypeFromBuffer(file[r].buffer).mime
        IN  sniffed \notin (ALLOWED_IMAGE_TYPES \cup ALLOWED_VIDEO_TYPES) =>
                pc[r] = "done" /\ resp[r].status = 400

\* C4: every file an ingestion writes is named by its generated id and an
\* extension that comes from the sniffed type (or .mp4 for the transcoder's
\* output), never from the client's file name.
C4_ServerChosenNames ==
    \A r \in Uploads : \A x \in files :
        x.name.id = loc[r].id =>
            \/ x.name.ext = "." \o fileTypeFromBuffer(file[r].buffer).ext
            \/ x.name = loc[r].finalFilename /\ loc[r].transcoded # "false"
                   /\ x.name.ext = ".mp4"

\* C5 (state part): a capacity check that fails is answered 507 and a 507
\* comes only from a failed check of a non-duplicate upload that has
\* written nothing; the space asked for is the size for an image and 2.5
\* times the size for a video.
C5_Rejected ==
    \A r \in Uploads :
        /\ (hist[r].checked /\ ~hist[r].enough) => (pc[r] = "done" /\ resp[r].status = 507)
        /\ resp[r].status = 507 =>
               /\ hist[r].checked /\ ~hist[r].enough
               /\ loc[r].existingFile = NoEntry
               /\ hist[r].wrote = {} /\ ~hist[r].indexed
               /\ 2 * hist[r].requiredX2 = (IF IsVideo(r) THEN 5 ELSE 2) * 2 * file[r].size
               /\ 2 * (hist[r].free - minFreeBytes) <= hist[r].requiredX2

\* C5 (step part): the step that answers 507 leaves the storage
\* directories, the in-memory index and the index file as they were.
C5_RejectionWritesNothing ==
    [][\A r \in Req :
          (resp[r].status # 507 /\ resp'[r].status = 507) =>
              UNCHANGED <<files, thumbs, hashIndex, indexFile>>]_vars

\* C5: when the capacity check fails for a non-duplicate upload the answer
\* is 507 and nothing has been written; the required space is the upload
\* size for an image and 2.5 times the upload size for a video.
C5_CapacityRejectionIsClean == []C5_Rejected /\ C5_RejectionWritesNothing

\* a video is refused although an image of the same size would have been
\* admitted, while another upload's file and index entry are in place
C5_Witness ==
    \E r \in Uploads :
        /\ resp[r].status = 507 /\ IsVideo(r)
        /\ hist[r].free = minFreeBytes + file[r].size + 1
        /\ files # {} /\ hashIndex # {} /\ indexFile.exists

\* C6: hasEnoughSpace(requiredBytes) is true exactly when free is strictly
\* above requiredBytes plus the floor; at equality and below it is false.
C6_StrictlyAboveFloor ==
    \A r \in Uploads :
        hist[r].checked =>
            /\ hist[r].enough <=> (2 * hist[r].free > hist[r].requiredX2 + 2 * minFreeBytes)
            /\ 2 * hist[r].free <= hist[r].requiredX2 + 2 * minFreeBytes => ~hist[r].enough

\* free is exactly requiredBytes plus a positive floor and the check fails
C6_Witness ==
    \E r \in Uploads :
        /\ hist[r].checked /\ ~hist[r].statfsFailed /\ MIN_FREE_SPACE_MB > 0
        /\ 2 * hist[r].free = hist[r].requiredX2 + 2 * minFreeBytes
        /\ ~hist[r].enough /\ resp[r].status = 507

\* C7 as stated: when statfs fails, free is reported as 0, hasEnoughSpace
\* is false and the upload is rejected with 507, for every integer floor.
C7_FailClosedEveryFloor ==
    \A r \in Uploads :
        hist[r].statfsFailed =>
            hist[r].free = 0 /\ ~hist[r].enough /\ resp[r].status = 507

\* C7 amended: when statfs fails, free is reported as 0, and for every floor
\* that is not negative hasEnoughSpace is false and the upload is rejected
\* with 507.
C7_FailClosedNonNegativeFloor ==
    \A r \in Uploads :
        hist[r].statfsFailed =>
            /\ hist[r].free = 0
            /\ MIN_FREE_SPACE_MB >= 0 => (~hist[r].enough /\ resp[r].status = 507)

\* statfs failed under a floor of zero and the upload was rejected
C7_Witness ==
    \E r \in Uploads :
        hist[r].statfsFailed /\ MIN_FREE_SPACE_MB = 0 /\ resp[r].status = 507

\* what the probe reported: an MP4 container with H.264 video and AAC or
\* no audio
ProbedWebCompatible(r) ==
    /\ \/ loc[r].codecInfo.container = "mp4"
       \/ loc[r].codecInfo.container = "mov" /\ TempName(r).ext = ".mp4"
    /\ loc[r].codecInfo.videoCodec \in {"h264", "avc1", "avc"}
    /\ loc[r].codecInfo.audioCodec \in {"", "aac", "mp4a"}

\* C8: a non-duplicate video upload that succeeds is stored as uploaded with
\* transcoded: false when the probe reported MP4 with H.264 and AAC or no
\* audio; otherwise it is transcoded, its file name ends in .mp4 and the
\* response has transcoded: true and mimeType video/mp4.
C8_TranscodeOnlyWhenNeeded ==
    \A r \in Uploads :
        (Stored(r) /\ IsVideo(r)) =>
            IF ProbedWebCompatible(r)
            THEN /\ resp[r].transcoded = "false"
                 /\ resp[r].url.filename.ext = loc[r].ext
                 /\ \A x \in files :
                        (x.dir = "videos" /\ x.name = resp[r].url.filename) =>
                            x.bytes = "original"
            ELSE /\ resp[r].transcoded = "true"
                 /\ resp[r].url.filename.ext = ".mp4"
                 /\ resp[r].mimeType = "video/mp4"
                 /\ \A x \in files :
                        (x.dir = "videos" /\ x.name = resp[r].url.filename) =>
                            x.bytes = "transcoded"

\* one video was stored as uploaded and another one was transcoded, and
\* both files are in videos/
C8_Witness ==
    \E r1, r2 \in Uploads :
        /\ Stored(r1) /\ IsVideo(r1) /\ ProbedWebCompatible(r1)
        /\ Stored(r2) /\ IsVideo(r2) /\ ~ProbedWebCompatible(r2)
        /\ \E x \in files : x.name = resp[r1].url.filename /\ x.bytes = "original"
        /\ \E x \in files : x.name = resp[r2].url.filename /\ x.bytes = "transcoded"

C10_OnlyFinalArtifactsPublic ==
    \A x \in files :
        x.dir \in {"images", "videos"} => (~x.name.temp /\ x.bytes # "partial")

Deletes == {r \in Req : kind[r] = "delete"}

\* the delete request has been answered with success
DeleteDone(r) == r \in Deletes /\ pc[r] = "done" /\ resp[r].status = 200

\* the step in which the delete handler of r runs up to its unlink
DeleteStep(r) == pc[r] = "idle" /\ kind'[r] = "delete" /\ hist'[r].params # NoParams

\* C11: after a DELETE of a stored file was answered with success, the file
\* is in no list() result, and neither the in-memory index nor the index
\* file holds an entry with the file name of the deleted file.
C11_DeletedFileLeavesListAndIndex ==
    \A r \in Req :
        DeleteDone(r) =>
            LET d == hist[r].deleted
            IN  /\ \A rec \in list(files).images \cup list(files).videos :
                       rec.url # [subdir |-> d.dir, filename |-> d.name]
                /\ \A e \in hashIndex : e.filename # d.name
                /\ \A e \in indexFile.entries : e.filename # d.name

C13_DeleteConfinedToStorageDirs ==
    [][\A r \in Req :
          LET q == hist'[r].params
          IN  DeleteStep(r) =>
                  /\ thumbs' = thumbs /\ indexFile' = indexFile
                  /\ files' \subseteq files
                  /\ Cardinality(files \ files') <= 1
                  /\ \A x \in files \ files' :
                         /\ x.dir = q.type /\ x.dir \in {"images", "videos"}
                         /\ x.name = q.filename.base
                  /\ q.type \notin {"images", "videos"} =>
                         /\ pc'[r] = "done" /\ resp'[r].status = 400
                         /\ UNCHANGED <<files, thumbs, hashIndex, indexFile>>]_vars

\* a DELETE of ../{name} took the file {name} out of the directory of its
\* type and left the index file in place
C13_Witness ==
    \E r \in Deletes :
        /\ DeleteDone(r) /\ hist[r].params.filename.dirs = "../"
        /\ hist[r].deleted.dir = hist[r].params.type
        /\ ~Exists(files, hist[r].deleted.dir, hist[r].deleted.name)
        /\ indexFile.exists


\* the step in which request r arrives and its middleware runs
ArrivalStep(r) == pc[r] = "idle" /\ pc'[r] # "idle"

\* the authorization header is Bearer followed by a space and a token
HasBearer(authHeader) ==
    Len(authHeader) >= 7 /\ SubSeq(authHeader, 1, 7) = "Bearer "

Token(authHeader) == SubSeq(authHeader, 8, Len(authHeader))

Protected(route) == route \in {"upload", "list", "stats", "metadata", "delete"}

\* C14 as stated: with an API key configured, every request to a protected
\* route without a Bearer header is answered 401 and every one with another
\* token 403, and storage and index stay as they are; without a key no
\* request is refused by authentication; /health is never refused by it.
C14_AuthenticationDecides ==
    [][\A r \in Req :
          LET q == request'[r]
          IN  ArrivalStep(r) =>
                  /\ (API_KEY # "" /\ Protected(q.route) /\ ~HasBearer(q.authorization)) =>
                         /\ resp'[r].status = 401
                         /\ UNCHANGED <<files, thumbs, hashIndex, indexFile>>
                  /\ (/\ API_KEY # "" /\ Protected(q.route)
                      /\ HasBearer(q.authorization)
                      /\ Token(q.authorization) # API_KEY) =>
                         /\ resp'[r].status = 403
                         /\ UNCHANGED <<files, thumbs, hashIndex, indexFile>>
                  /\ API_KEY = "" => resp'[r].status \notin {401, 403}
                  /\ q.route = "health" => resp'[r].status \notin {401, 403}]_vars

\* C14 amended: a request with a malformed JSON body is answered 400 by the
\* body parser before authentication.  Of the other requests, with an API
\* key configured, those to a protected route without a Bearer header are
\* answered 401 and those with another token 403; the three answers leave
\* storage and index as they are.  Without a key no request is refused by
\* authentication, and /health is answered 200 whatever the credentials.
C14_AuthenticationAfterBodyParser ==
    [][\A r \in Req :
          LET q == request'[r]
          IN  ArrivalStep(r) =>
                  IF q.body = "malformed json"
                  THEN /\ resp'[r].status = 400
                       /\ UNCHANGED <<files, thumbs, hashIndex, indexFile>>
                  ELSE /\ (/\ API_KEY # "" /\ Protected(q.route)
                           /\ ~HasBearer(q.authorization)) =>
                              /\ resp'[r].status = 401
                              /\ UNCHANGED <<files, thumbs, hashIndex, indexFile>>
                       /\ (/\ API_KEY # "" /\ Protected(q.route)
                           /\ HasBearer(q.authorization)
                           /\ Token(q.authorization) # API_KEY) =>
                              /\ resp'[r].status = 403
                              /\ UNCHANGED <<files, thumbs, hashIndex, indexFile>>
                       /\ API_KEY = "" => resp'[r].status \notin {401, 403}
                       /\ q.route = "health" =>
                              pc'[r] = "done" /\ resp'[r].status = 200]_vars

\* with a key configured and a file stored and indexed, a DELETE without a
\* Bearer header was answered 401
C14_Witness ==
    /\ API_KEY # ""
    /\ files # {} /\ hashIndex # {} /\ indexFile.exists
    /\ \E r \in Req :
           /\ request[r].route = "delete" /\ request[r].authorization = "Basic k"
           /\ resp[r].status = 401

\* the error kinds an upload surfaces
ErrorKinds ==
    {"unsupported type", "insufficient storage", "metadata extraction",
     "transcode", "io"}

Failed(r) == r \in Uploads /\ resp[r].error \in ErrorKinds

\* once a request has been answered it takes no further step
AnsweredIsFinal ==
    [][\A r \in Req :
          pc[r] = "done" =>
              /\ pc'[r] = "done" /\ resp'[r] = resp[r]
              /\ loc'[r] = loc[r] /\ hist'[r].wrote = hist[r].wrote]_vars

\* C15 as stated (status part): two uploads that fail with errors of
\* different kinds are answered with different HTTP statuses.
C15_DistinctStatusPerErrorKind ==
    \A r1, r2 \in Req :
        (Failed(r1) /\ Failed(r2) /\ resp[r1].error # resp[r2].error) =>
            resp[r1].status # resp[r2].status

\* the status each error kind is answered with
C15_StatusOfKind ==
    \A r \in Req :
        Failed(r) =>
            /\ pc[r] = "done"
            /\ resp[r].status =
                   CASE resp[r].error = "unsupported type" -> 400
                     [] resp[r].error = "insufficient storage" -> 507
                     [] OTHER -> 500

\* C15 amended: an unsupported type is answered 400, insufficient storage
\* 507, and a metadata-extraction failure, a transcode failure and an I/O
\* failure are all answered 500; each error ends the request: no step of
\* it runs after the error response.
C15_ThreeStatusesAndTerminal == []C15_StatusOfKind /\ AnsweredIsFinal

\* a metadata-extraction failure and a transcode failure were both
\* answered 500
C15_Witness ==
    \E r1, r2 \in Req :
        /\ Failed(r1) /\ resp[r1].error = "metadata extraction"
        /\ Failed(r2) /\ resp[r2].error = "transcode"
        /\ resp[r1].status = 500 /\ resp[r2].status = 500

\* no two requests hold the same generated id and no two final files carry
\* the same id
C16_IdsUnique ==
    /\ \A r1, r2 \in Req : (r1 # r2 /\ loc[r1].id # 0) => loc[r1].id # loc[r2].id
    /\ \A x, y \in files :
           (~x.name.temp /\ ~y.name.temp /\ x.name.id = y.name.id) => x = y
    /\ \A x \in files : \A r \in Req :
           loc[r].id = x.name.id => x.content = file[r].buffer

\* no step replaces the content of a file that is already in storage
C16_NoOverwrite ==
    [][\A x \in files : \A y \in files' :
          (x.dir = y.dir /\ x.name = y.name) => x.content = y.content]_vars

C17_DuplicateWritesNothing ==
    [][\A r \in Req :
          (pc[r] = "duplicate" /\ pc'[r] = "done") =>
              /\ resp'[r].duplicate
              /\ hist'[r].wrote = {} /\ ~hist'[r].indexed
              /\ UNCHANGED <<files, thumbs, hashIndex, indexFile>>]_vars

\* C18: when the write of an upsert or of a removeByFilename succeeds and no
\* other index mutation was in flight at any time between its change of the
\* in-memory table and the end of its write, the index file then holds
\* exactly the entries of the in-memory table.
C18_PersistedEqualsMemory ==
    [][\A r \in Req :
          (/\ pc[r] = "saveIndex" /\ pc'[r] = "done"
           /\ resp'[r].status = 200 /\ ~hist[r].overlap) =>
              /\ indexFile'.exists
              /\ indexFile'.entries = hashIndex']_vars

\* an upsert and a removal, one after the other, have both been written:
\* the index holds no entry and so does the file
C18_Witness ==
    \E r1, r2 \in Req :
        /\ Stored(r1) /\ ~hist[r1].overlap
        /\ DeleteDone(r2) /\ ~hist[r2].overlap
        /\ hist[r2].deleted.name = resp[r1].url.filename
        /\ indexFile.exists /\ indexFile.entries = {} /\ hashIndex = {}

\* the entry the upload r put into the index
EntryOf(r) ==
    [hash |-> calculateHash(file[r].buffer),
     filename |-> resp[r].url.filename,
     type |-> IF IsImage(r) THEN "image" ELSE "video",
     url |-> resp[r].url]

\* two uploads of distinct content have both been answered with success
\* and stored their files
BothStored(r1, r2) ==
    /\ r1 # r2 /\ Stored(r1) /\ Stored(r2)
    /\ file[r1].buffer # file[r2].buffer

\* C19: index mutations are not mutually exclusive.  The index file lacks
\* the entry that an upload answered with success has in the in-memory
\* index only if another index mutation was in flight when the upload made
\* its own; the witness is the interleaving of two uploads of distinct
\* content in which the update is lost.
C19_LostOnlyWhenOverlapping ==
    \A r \in Req :
        (/\ Stored(r) /\ EntryOf(r) \in hashIndex
         /\ EntryOf(r) \notin indexFile.entries) => hist[r].overlap

\* both uploads have responded with success and the index file lacks the
\* entry of one of them
C19_Witness ==
    \E r1, r2 \in Req :
        /\ BothStored(r1, r2)
        /\ indexFile.exists
        /\ EntryOf(r1) \notin indexFile.entries
        /\ EntryOf(r2) \in indexFile.entries

\* the step in which the process starts again
RestartStep == boots' = boots + 1

\* start() loads the table that is persisted: nothing when there is no
\* index file, the entries of the file otherwise, which is the in-memory
\* table of the run before when the file was written by its last mutation
C20_LoadsPersistedTable ==
    [][RestartStep =>
          /\ ~indexFile.exists => hashIndex' = {}
          /\ indexFile.exists => hashIndex' = indexFile.entries
          /\ synced' => hashIndex' = hashIndex]_vars

\* r is an upload, answered after a restart, of content whose ingestion was
\* answered with success before the restart
ReuploadAfterRestart(r) ==
    /\ r \in Uploads /\ boots >= 1 /\ pc[r] = "done"
    /\ hist[r].prior # NoUrl /\ hist[r].prior.filename.id <= boots * NumReq

\* r is answered as a duplicate of a file stored in an earlier run
DuplicateOfEarlierRun(r) ==
    /\ resp[r].status = 200 /\ resp[r].duplicate
    /\ resp[r].url.filename.id <= boots * NumReq

\* as C20 reads without its condition on the backing file: every such
\* upload is answered as a duplicate (this fails when the entry was lost
\* to an overlapping index write, C19)
C20_DuplicateAcrossAnyRestart ==
    \A r \in Req : ReuploadAfterRestart(r) => DuplicateOfEarlierRun(r)

\* with the backing file of every shutdown written by the last mutation
\* before it, such an upload is answered as a duplicate
C20_DuplicateAcrossRestart ==
    \A r \in Req : (ReuploadAfterRestart(r) /\ synced) => DuplicateOfEarlierRun(r)

Stage(p) ==
    CASE p = "idle" -> 0
      [] p \in {"duplicate", "capacity"} -> 1
      [] p \in {"extract", "writeTemp"} -> 2
      [] p \in {"writeImage", "analyze"} -> 3
      [] p \in {"ffmpeg", "rename"} -> 4
      [] p = "ffmpegOut" -> 5
      [] p = "videoMeta" -> 6
      [] p = "saveIndex" -> 7
      [] OTHER -> 8

\* the path of the final file of upload r
FinalPath(r) == Path(IF IsImage(r) THEN "images" ELSE "videos", loc[r].finalFilename)

\* the file at the path is there with all its bytes, or a DELETE has
\* removed it
CompleteOrDeleted(fs, hs, path) ==
    \/ \E x \in fs : /\ x.dir = path.dir /\ x.name = path.name
                      /\ x.bytes \in {"original", "transcoded"}
    \/ \E q \in Req : hs[q].deleted = path

\* every step of an upload moves it to a later stage
C21_StagesAdvance ==
    [][\A r \in Req :
          (kind'[r] = "upload" /\ pc'[r] # pc[r]) => Stage(pc'[r]) > Stage(pc[r])]_vars

\* the index entry is added after the final file has been written
C21_IndexAfterFile ==
    [][\A r \in Req :
          (kind[r] = "upload" /\ pc[r] # "saveIndex" /\ pc'[r] = "saveIndex") =>
              /\ hist[r].checked
              /\ FinalPath(r)' \in hist'[r].wrote
              /\ CompleteOrDeleted(files', hist', FinalPath(r)')
              /\ \E e \in hashIndex' : e.filename = loc'[r].finalFilename]_vars

\* the success response of a non-duplicate upload is sent when the write of
\* the index has landed, after the upsert and the write of the final file
C21_RespondAfterIndex ==
    [][\A r \in Req :
          (/\ kind[r] = "upload" /\ pc[r] # "done" /\ pc'[r] = "done"
           /\ resp'[r].status = 200 /\ ~resp'[r].duplicate) =>
              /\ pc[r] = "saveIndex"
              /\ hist[r].checked /\ hist[r].indexed
              /\ FinalPath(r) \in hist[r].wrote
              /\ CompleteOrDeleted(files, hist, FinalPath(r))
              /\ indexFile'.exists /\ indexFile'.entries = loc[r].entries
              /\ \E e \in loc[r].entries : e.filename = loc[r].finalFilename]_vars

\* C21: within one upload the steps follow one another in the order type
\* validation, dedup check, capacity check, processing, persist, index,
\* respond: the index entry is added only after the final file exists, and
\* the success response of a non-duplicate upload is sent only after the
\* final file is fully written and the index upsert has completed.
C21_StepsSequential == C21_StagesAdvance /\ C21_IndexAfterFile /\ C21_RespondAfterIndex

\* a transcoded video has been stored, indexed and answered with success
C21_Witness ==
    \E r \in Req :
        /\ Stored(r) /\ resp[r].transcoded = "true"
        /\ \E x \in files : x.dir = "videos" /\ x.name = loc[r].finalFilename
                              /\ x.bytes = "transcoded"
        /\ \E e \in indexFile.entries : e.filename = loc[r].finalFilename

\* the upload r was answered with the error of extractImageMetadata
DimensionsUnknown(r) ==
    r \in Uploads /\ pc[r] = "done" /\ resp[r].error = "metadata extraction"

\* such an upload is an image answered with an error status, and nothing
\* carries its id: no file, no index entry, no entry of the index file
C22_NothingStored ==
    \A r \in Req :
        DimensionsUnknown(r) =>
            /\ IsImage(r) /\ resp[r].status >= 400
            /\ hist[r].wrote = {} /\ ~hist[r].indexed
            /\ ~\E x \in files : x.name.id = loc[r].id
            /\ ~\E e \in hashIndex \cup indexFile.entries : e.filename.id = loc[r].id

\* the step in which extractImageMetadata throws changes neither the files
\* nor the index
C22_FailureStepWritesNothing ==
    [][\A r \in Req :
          (pc[r] = "extract" /\ DimensionsUnknown(r)') =>
              UNCHANGED <<files, thumbs, hashIndex, indexFile>>]_vars

\* C22: an image whose pixel dimensions cannot be determined makes the
\* ingestion fail with an error response; extraction runs before the write,
\* so no file is written and no index entry is added for that upload.
C22_UnknownDimensionsRejected == []C22_NothingStored /\ C22_FailureStepWritesNothing

\* an image upload has been answered with the error of the extraction
C22_Witness ==
    \E r \in Req : DimensionsUnknown(r) /\ resp[r].status = 500 /\ file[r].buffer = "png"

\* extractImageMetadata has been evaluated on an image with dimensions
Extracted ==
    /\ call.fn = "extractImageMetadata"
    /\ call.metadata.width # 0 /\ call.metadata.height # 0

\* C23: EXIF handling is all-or-nothing and never throws: when a step of the
\* EXIF or GPS parsing raises an error, extractImageMetadata still returns
\* width, height, aspectRatio and lqip, with both exif and location absent.
C23_ExifAllOrNothing ==
    Extracted =>
        /\ ~returned.threw
        /\ returned.width = call.metadata.width /\ returned.height = call.metadata.height
        /\ returned.aspectRatio > 0 /\ returned.lqip
        /\ returned.caught => (~returned.exif.present /\ ~returned.location.present)

\* the parts of C23 that hold: the function does not throw once the
\* dimensions are known, and location is absent when a step raised an error
C23_NeverThrows ==
    Extracted =>
        /\ ~returned.threw /\ returned.lqip
        /\ returned.caught => ~returned.location.present

\* C24: the exif sub-object is present only when at least one field was
\* parsed to a defined value; when every field is absent or malformed the
\* result has no exif key.
C24_ExifOnlyWithDefinedField ==
    (Extracted /\ returned.exif.present) =>
        \E k \in ExifKeys : returned.exif[k] # Undefined

\* the part of C24 that holds: exif is present only when a key was assigned
C24_ExifOnlyWithKey ==
    (Extracted /\ returned.exif.present) => returned.exif.keys # {}

\* degrees + minutes/60 + seconds/3600 in 1/3600 of a degree, negated for
\* the references S and W
Decimal(ref, coord) ==
    LET d == 3600 * coord.v[1] + 60 * coord.v[2] + coord.v[3]
    IN  Num(IF ref = Str("S") \/ ref = Str("W") THEN 0 - d ELSE d)

\* the reference is missing or fewer than three components are given
NoCoordinate(ref, coord) ==
    \/ ref = Undefined \/ ref = Str("")
    \/ coord = Undefined
    \/ coord.t = "array" /\ Len(coord.v) < 3

\* a coordinate as the signature of parseGpsCoordinate declares it: an
\* array of numbers or undefined
Typed(coord) == coord.t \in {"undefined", "array"}

C25_CoordinateFormula ==
    (call.fn = "parseGpsCoordinate" /\ Typed(call.coord)) =>
        returned = IF NoCoordinate(call.ref, call.coord) THEN Undefined
                   ELSE Decimal(call.ref, call.coord)

C25_LocationWhenBothDefined ==
    LET gps == call.metadata.GPSInfo
        noLat == NoCoordinate(gps.GPSLatitudeRef, gps.GPSLatitude)
        noLon == NoCoordinate(gps.GPSLongitudeRef, gps.GPSLongitude)
    IN  (/\ Extracted /\ call.metadata.exif = "parsed" /\ gps.present
         /\ Typed(gps.GPSLatitude) /\ Typed(gps.GPSLongitude)) =>
            /\ returned.location.present = (~noLat /\ ~noLon)
            /\ returned.location.present =>
                   /\ returned.location.lat = Decimal(gps.GPSLatitudeRef, gps.GPSLatitude)
                   /\ returned.location.lon = Decimal(gps.GPSLongitudeRef, gps.GPSLongitude)

\* C25: parseGpsCoordinate returns degrees + minutes/60 + seconds/3600,
\* negated exactly when the reference is S or W, and undefined when the
\* reference is missing or fewer than three components are given; location
\* is set only when both coordinates are defined, and a coordinate of
\* exactly 0 counts as defined.
C25_GpsConversion == C25_CoordinateFormula /\ C25_LocationWhenBothDefined

\* a southern latitude and a longitude of exactly 0 have given a location
C25_Witness ==
    /\ Extracted /\ returned.location.present
    /\ call.metadata.GPSInfo.GPSLatitudeRef = Str("S")
    /\ returned.location.lat = Num(0 - (3600 * 59 + 60 * 54 + 36))
    /\ returned.location.lon = Num(0)

\* the upload r waits for ffprobe or ffmpeg to exit
AwaitsSubprocess(r) == pc[r] \in {"analyze", "ffmpeg", "ffmpegOut"}

\* C26: probe and transcode subprocess invocations are bounded, so every
\* upload request eventually gets a response, even when the probing or
\* transcoding subprocess never exits.
C26_EveryUploadAnswered ==
    \A r \in Req : (kind[r] = "upload") ~> (pc[r] = "done")

\* what holds instead: an upload is answered or is left waiting for a
\* subprocess
C26_AnsweredUnlessSubprocessHangs ==
    \A r \in Req : (kind[r] = "upload") ~> (pc[r] = "done" \/ AwaitsSubprocess(r))

\* C27: the upload rate limit is global: within one window at most 20
\* upload requests in total, counted across all clients, pass the limiter
\* and reach the ingestion handler.
C27_GlobalLimit == uploadLimiter.passed <= UploadLimitMax

\* what holds instead: of the uploads of one address at most 20 pass in
\* one window
C27_PerAddressLimit ==
    /\ uploadLimiter.passed <= Cardinality(Clients) * UploadLimitMax
    /\ uploadLimiter.passed =
           (IF uploadLimiter.hits["10.0.0.1"] > UploadLimitMax THEN UploadLimitMax
            ELSE uploadLimiter.hits["10.0.0.1"])
         + (IF uploadLimiter.hits["10.0.0.2"] > UploadLimitMax THEN UploadLimitMax
            ELSE uploadLimiter.hits["10.0.0.2"])

\* what analyzeVideoCodecs returns from its catch (transcode.ts 203-212)
ProbeFailed(codecInfo) ==
    /\ codecInfo.container = "unknown"
    /\ codecInfo.videoCodec = "" /\ codecInfo.audioCodec = ""

\* C28: a failure of the probe subprocess never fails the upload by itself:
\* analyzeVideoCodecs returns isWebCompatible = false without throwing, and
\* the upload proceeds to transcoding.
C28_ProbeFailureTranscodes ==
    [][\A r \in Req :
          (pc[r] = "analyze" /\ pc'[r] # "analyze") =>
              /\ pc'[r] \in {"ffmpeg", "rename"}
              /\ resp'[r] = NoResp
              /\ ProbeFailed(loc'[r].codecInfo) =>
                     /\ ~loc'[r].codecInfo.isWebCompatible
                     /\ pc'[r] = "ffmpeg"
                     /\ loc'[r].finalFilename.ext = ".mp4"]_vars

\* an upload of H.264 video whose probe failed has been transcoded, stored
\* and answered with success
C28_Witness ==
    \E r \in Req :
        /\ Stored(r) /\ file[r].buffer = "mp4"
        /\ ProbeFailed(loc[r].codecInfo)
        /\ resp[r].transcoded = "true"

\* codec names are compared in lower case
LowerCase(s) == CASE s = "H264" -> "h264" [] s = "AAC" -> "aac" [] OTHER -> s

\* the container test of the code: format mp4, or format mov (the first
\* name ffprobe prints for the MP4 family) on a path that ends in .mp4
Mp4Family(container, filePathExt) ==
    container = "mp4" \/ (container = "mov" /\ filePathExt = ".mp4")

\* C29: for every probe result, isWebCompatible is truthy exactly when the
\* container is an MP4-family container, the codec of the first video
\* stream is in {h264, avc1, avc}, and the first audio stream is absent or
\* its codec is in {aac, mp4a}; a file with no video stream is never
\* web-compatible.
C29_WebCompatibleIffAllThree ==
    (call.fn = "analyzeVideoCodecs" /\ call.probeOk) =>
        /\ returned.isWebCompatible =
               (/\ Mp4Family(call.probe.container, call.filePathExt)
                /\ LowerCase(call.probe.video) \in {"h264", "avc1", "avc"}
                /\ (call.probe.audio = "" \/ LowerCase(call.probe.audio) \in {"aac", "mp4a"}))
        /\ call.probe.video = "" => ~returned.isWebCompatible

\* an MP4 file with H.264 video and no audio stream is web-compatible
C29_Witness ==
    /\ call.fn = "analyzeVideoCodecs" /\ call.probeOk
    /\ call.probe = [container |-> "mov", video |-> "h264", audio |-> ""]
    /\ call.filePathExt = ".mp4"
    /\ returned.isWebCompatible

\* ffmpeg exited with code 0 for the upload r and the unlink of its input
\* failed
InputNotDeleted(r) ==
    /\ r \in Uploads /\ loc[r].transcoded = "true" /\ ~hist[r].transcodeFailed
    /\ TempPath(r) \in hist[r].unlinkFailed

\* such an upload goes on to the metadata of the transcoded file
C30_ResolvesAllTheSame ==
    [][\A r \in Req :
          (pc[r] = "ffmpegOut" /\ InputNotDeleted(r)') =>
              /\ pc'[r] = "videoMeta" /\ resp'[r] = NoResp
              /\ loc'[r].finalMimeType = "video/mp4"]_vars

\* and is answered with success and has put the entry of the transcoded
\* file into the index, unless the write of the index file fails
C30_CompletesWithEntry ==
    \A r \in Req :
        (InputNotDeleted(r) /\ pc[r] = "done") =>
            /\ hist[r].indexed
            /\ \E e \in loc[r].entries :
                   /\ e.filename = [id |-> loc[r].id, temp |-> FALSE, ext |-> ".mp4"]
                   /\ e.hash = calculateHash(file[r].buffer)
            /\ \/ resp[r].error = "io"
               \/ /\ resp[r].status = 200 /\ ~resp[r].duplicate
                  /\ resp[r].transcoded = "true"
                  /\ resp[r].url.filename = [id |-> loc[r].id, temp |-> FALSE, ext |-> ".mp4"]

\* C30: when the transcoding subprocess exits with code 0 but deleting the
\* original input fails, transcodeVideo still resolves and the upload
\* completes with a success response and an index entry for the transcoded
\* file.
C30_UnlinkFailureTolerated == []C30_CompletesWithEntry /\ C30_ResolvesAllTheSame

\* the upload was answered with success, its entry is in the index file and
\* the input that could not be deleted is still in videos/
C30_Witness ==
    \E r \in Req :
        /\ InputNotDeleted(r) /\ Stored(r)
        /\ Exists(files, "videos", TempName(r))
        /\ \E e \in indexFile.entries : e.filename = loc[r].finalFilename

\* the list handler has answered
Listed == call.fn = "list" /\ call.at = "done"

\* the records of array are those of the files of dir, one for each
OneRecordPerFile(array, dir) ==
    /\ \A x \in files : x.dir = dir =>
          \E i \in DOMAIN array : array[i] = listRecord(dir, x.name, x)
    /\ \A i \in DOMAIN array : Exists(files, dir, array[i].filename)
    /\ \A i, j \in DOMAIN array : array[i].filename = array[j].filename => i = j

NewestFirst(array) ==
    \A i, j \in DOMAIN array : i < j => array[i].mtime >= array[j].mtime

\* C31: when list() answers and no file was removed while it ran, images
\* holds one record for each file of images/ and videos one for each file
\* of videos/; whatever happened, each list is ordered by modification
\* time with the newest first and total is the sum of both lengths.
C31_ListContract ==
    Listed =>
        /\ call.unlinked = {} =>
              /\ OneRecordPerFile(returned.images, "images")
              /\ OneRecordPerFile(returned.videos, "videos")
        /\ NewestFirst(returned.images)
        /\ NewestFirst(returned.videos)
        /\ returned.total = Len(returned.images) + Len(returned.videos)

\* list() has answered two images that readdir returned oldest first, and
\* a video
C31_Witness ==
    /\ Listed
    /\ call.unlinked = {}
    /\ Len(returned.images) >= 2
    /\ Len(returned.videos) >= 1
    /\ call.images # returned.images
    /\ returned.images[1].mtime > returned.images[2].mtime

\* the body list() answered has a record for the file
InListing(x) ==
    LET array == IF x.dir = "images" THEN returned.images ELSE returned.videos
    IN  \E i \in DOMAIN array : array[i] = listRecord(x.dir, x.name, x)

\* C38: when list() answers, every file that was in images/ or videos/ for
\* the whole duration of the call has a record in the result, whichever
\* other files DELETE requests removed in the meantime.  (No file is
\* created while the handler runs, so the files there at the answer are
\* the files that were there throughout.)
C38_UndeletedFilesListed ==
    Listed => \A x \in files : InListing(x)

\* request r answers an upload with success: true in this step
AnswersSuccess(r) ==
    /\ pc[r] # "done" /\ pc'[r] = "done"
    /\ kind'[r] = "upload"
    /\ resp'[r].status = 200

\* C32: whenever an upload is answered with success: true, duplicate or
\* not, the file of the url answered is in storage at that moment,
\* whichever DELETE requests ran in between.
C32_AnsweredUrlExists ==
    [][\A r \in Req :
          AnswersSuccess(r) =>
              Exists(files', resp'[r].url.subdir, resp'[r].url.filename)]_vars

\* the files request r wrote into images/ and videos/ that are still there
Remaining(r) ==
    {p \in hist[r].wrote : p.dir \in {"images", "videos"} /\ Exists(files, p.dir, p.name)}

\* C33: an upload that passed type validation and was answered with an
\* error (metadata extraction, file write, transcode, poster extraction or
\* index write failed) has left none of the files it wrote in images/ or
\* videos/.
C33_FailedUploadLeavesNoFile ==
    \A r \in Uploads :
        (pc[r] = "done" /\ resp[r].status >= 400 /\ resp[r].error # "unsupported type")
            => Remaining(r) = {}

\* the MIME type of a stored file: video/mp4 for the output of ffmpeg, the
\* type of its signature for uploaded bytes
StoredMimeType(x) ==
    IF x.bytes = "original" THEN fileTypeFromBuffer(x.content).mime ELSE "video/mp4"

\* C34: the mimeType of a successful upload response for a video is the
\* MIME type of the file stored at the url answered, for a duplicate too.
C34_MimeTypeOfStoredFile ==
    \A r \in Uploads :
        (Succeeded(r) /\ IsVideo(r)) =>
            \A x \in files :
                (x.dir = resp[r].url.subdir /\ x.name = resp[r].url.filename)
                    => resp[r].mimeType = StoredMimeType(x)

\* request r arrives with an upload and finds an index entry for its bytes
IndexHit(r) == pc[r] = "idle" /\ pc'[r] = "duplicate"

\* no DELETE request is in flight
DeletesCompleted == \A q \in Req : kind[q] = "delete" => pc[q] = "done"

\* C35: an upload that arrives when every DELETE request has completed is
\* not reported as a duplicate of a file that was deleted: the entry it
\* finds in the index names a file that is in storage.  (Final files leave
\* storage through DELETE only.)
C35_DeletedContentNotDuplicate ==
    [][\A r \in Req :
          (IndexHit(r) /\ DeletesCompleted) =>
              Exists(files, loc'[r].existingFile.url.subdir,
                     loc'[r].existingFile.url.filename)]_vars

\* the lookup of upload r returned an index entry
HitIndex(r) == r \in Uploads /\ loc[r].existingFile # NoEntry

\* C36: an upload whose bytes have an index entry at the lookup is never
\* put through the capacity check and, once answered, is answered with
\* success and duplicate: true, so that an upload answered 507 found no
\* entry for its bytes.  The free space is read by the capacity check only,
\* so this holds for every amount of free space.
C36_DuplicateBeforeCapacity ==
    \A r \in Uploads :
        /\ HitIndex(r) =>
              /\ ~hist[r].checked
              /\ pc[r] \in {"duplicate", "done"}
              /\ pc[r] = "done" => (resp[r].status = 200 /\ resp[r].duplicate)
        /\ (pc[r] = "done" /\ resp[r].status = 507) =>
              (loc[r].existingFile = NoEntry /\ hist[r].checked /\ ~hist[r].enough)

\* an upload of bytes that have an index entry has been answered as a
\* duplicate, without a capacity check
C36_Witness ==
    \E r \in Uploads :
        /\ HitIndex(r) /\ pc[r] = "done"
        /\ resp[r].status = 200 /\ resp[r].duplicate
        /\ ~hist[r].checked
        /\ \E e \in hashIndex : e.hash = calculateHash(file[r].buffer)

\* C37: the cleanup of start() removes nothing but temporary upload files:
\* every file a start removes is a {id}_temp{ext} file in videos/ that no
\* upload in flight is working on, and never a final stored video, whatever
\* its id.
C37_CleanupRemovesOnlyTempFiles ==
    [][RestartStep =>
          \A x \in files \ files' :
              /\ x.dir = "videos" /\ x.name.temp
              /\ \A r \in Req : pc[r] \notin {"idle", "done"} => x.name # TempName(r)]_vars

=============================================================================
